---- MODULE Spec2Model ----
(***************************************************************************)
(* HomeKit Data Stream core of HAP-python: the DatastreamServer (prepared  *)
(* sessions, listener, live connections) and the DatastreamConnection      *)
(* state machine (identification by trial decryption, hello handshake,     *)
(* message dispatch, request/response correlation, timers).                *)
(*                                                                         *)
(* Python semantics that decide the behaviour and are kept as they are:    *)
(*  - ConnectionState derives from enum.Enum, which defines no ordering:   *)
(*    `self._state >= ConnectionState.CLOSING` in close() raises TypeError *)
(*    in every state, before close() changes anything.                     *)
(*  - DatastreamConnection has no attribute `request_handlers`:            *)
(*    send_request raises AttributeError while choosing the id.            *)
(*  - An exception that leaves data_received is caught by the asyncio      *)
(*    transport, which force-closes the socket and schedules               *)
(*    connection_lost(exc); an exception that leaves a call_later callback *)
(*    is caught by the event loop and only logged.                         *)
(***************************************************************************)
EXTENDS Integers, Sequences, FiniteSets, TLC

(* ------------------------------ bounds -------------------------------- *)
\* longest array, dictionary and string given to the codec
MaxArray == 13
MaxDict == 15
MaxString == 33
\* connection objects the server ever creates
MaxConns == 2
\* prepare_session calls ever made
MaxSessions == 1
\* frames the controllers seal in total
MaxFrames == 3
\* complete frames extracted by one data_received call
MaxBatch == 2
\* send_request calls made on one connection
MaxRequests == 2
\* handlers registered with add_request_handler for one (protocol, topic)
MaxHandlers == 1
\* distinct message ids a controller uses
MaxId == 2
\* send_event calls the application makes on one connection
MaxEvents == 2
\* setup writes that reach prepare_session in the setup scenario
MaxSetups == 2
\* max_chunk_size (0x40000 bytes) counted in units of 0x20000 bytes, the longest
\* packet in the same units, and the packets a delegate yields
MaxChunk == 2
MaxPacket == 4
MaxPackets == 2

(* ------------------------- program constants -------------------------- *)
\* ConnectionState
UNIDENTIFIED == 0
EXPECTING_HELLO == 1
READY == 2
CLOSING == 3
CLOSED == 4
\* MessageType
EVENT == 1
REQUEST == 2
RESPONSE == 3
\* HDSStatus
SUCCESS == 0
TIMEOUT == 2
PROTOCOL_SPECIFIC_ERROR == 6
\* HDSProtocolSpecificErrorReason
NOT_ALLOWED == 1
BUSY == 2
UNEXPECTED_FAILURE == 5
INVALID_CONFIGURATION == 9
\* HDSFrame payload type accepted by decode_frames
PAYLOAD_TAG == 1
\* DatastreamConnection.MAX_PAYLOAD_LENGTH
MAX_PAYLOAD_LENGTH == 1048575

ConnectionState == {UNIDENTIFIED, EXPECTING_HELLO, READY, CLOSING, CLOSED}
ServerState == {"UNINITIALIZED", "LISTENING", "CLOSING", "CLOSED"}

Conns == 1..MaxConns
SessionIds == 1..(IF MaxSetups > MaxSessions THEN MaxSetups ELSE MaxSessions)
Ids == 1..MaxId

\* `None` for a session / listener reference
NoSession == 0
NoListener == 0
\* `None` for RecordingManagement._recording_stream
NoStream ==
    [connection |-> 0, request_id |-> 0, phase |-> "none", data_sequence |-> 0,
     initializing |-> FALSE]

\* DataFormatTags
INVALID == 0
TRUE_TAG == 1
FALSE_TAG == 2
TERMINATOR == 3
NULL == 4
UUID == 5
DATE == 6
INTEGER_MINUS_ONE == 7
INTEGER_RANGE_START_0 == 8
INTEGER_RANGE_STOP_39 == 46
INT8 == 48
INT16LE == 49
INT32LE == 50
INT64LE == 51
FLOAT32LE == 53
FLOAT64LE == 54
UTF8_LENGTH_START == 64
UTF8_LENGTH_STOP == 96
UTF8_LENGTH8 == 97
UTF8_LENGTH16LE == 98
UTF8_LENGTH32LE == 99
UTF8_LENGTH64LE == 100
UTF8_NULL_TERMINATED == 111
DATA_LENGTH_START == 112
DATA_LENGTH_STOP == 144
DATA_LENGTH8 == 145
DATA_LENGTH16LE == 146
DATA_LENGTH32LE == 147
DATA_LENGTH64LE == 148
DATA_TERMINATED == 159
COMPRESSION_START == 160
COMPRESSION_STOP == 207
ARRAY_LENGTH_START == 208
ARRAY_LENGTH_STOP == 222
ARRAY_TERMINATED == 223
DICTIONARY_LENGTH_START == 224
DICTIONARY_LENGTH_STOP == 238
DICTIONARY_TERMINATED == 239

VARIABLES
    \* DatastreamServer
    srvState,         \* self.state
    srvListener,      \* self._server: NoListener or the listener's id
    sessions,         \* self.sessions: list of prepared session ids
    connections,      \* self.connections: list of connection ids
    \* environment of the server
    openListeners,    \* listening sockets that create_server opened and nobody closed
    nlisteners,       \* listeners ever created
    starting,         \* prepare_session calls suspended in create_server
    nsessions,        \* DatastreamSession objects ever created
    nconns,           \* DatastreamConnection objects ever created
    \* DatastreamSession / HDSCrypto, by session id
    in_nonce,         \* crypto._in_nonce
    out_nonce,        \* crypto._out_nonce
    connection_task,  \* session.connection_task: "none", "armed", "cancelled", "fired"
    port,             \* session.port: NoListener (None) or the listener's id
    \* DatastreamConnection, by connection id
    state,            \* self._state
    c_session,        \* self._session
    hello_timer,      \* self._hello_timer: "armed", "fired", "none" (None)
    transport,        \* "none", "open", "closing", "aborted", "closed"
    response_handlers,\* self._response_handlers: id -> [cb, timer]
    written,          \* frames handed to transport.write, in order
    handled,          \* messages given to process_message, with what became of them
    first,            \* the message data_received checked as the hello
    ident,            \* what identify_session returned: "none" yet, "bound", "failed"
    regressed,        \* an assignment to self._state has lowered it
    \* DatastreamManagement
    request_handlers, \* self._request_handlers[(dataSend, open)]: list of handlers
    \* callers of send_request
    reqCalls,         \* send_request calls made, by connection
    reqElapsed,       \* of these, the calls that are 10 s old
    cbLog,            \* invocations of the callbacks given to send_request
    \* DatastreamConnection.protocol_handlers, by connection id
    protocol_handlers,\* the protocols that have an entry
    \* RecordingManagement
    recording_stream, \* self._recording_stream: NoStream (None) or the stream
    recording_active, \* self._recording_active
    camera_active,    \* value of the characteristic HomeKitCameraActive
    selected_config,  \* self.selected_config is set
    yielded,          \* the packets the delegate's generator has yielded
    \* callers of send_event and of the setup characteristic
    evCalls,          \* send_event calls the application made, by connection
    appErr,           \* the exception the last such call raised, "" if none
    setupResult,      \* what the last setup write returned or raised
    \* DatastreamParser
    opack             \* one value on its way through the writer and the reader

srvVars == <<srvState, srvListener, sessions, connections, openListeners,
             nlisteners, starting, nsessions, nconns>>
sesVars == <<in_nonce, out_nonce, connection_task, port>>
conVars == <<state, c_session, hello_timer, transport, response_handlers,
             written, handled, first, ident, regressed>>
reqVars == <<reqCalls, reqElapsed, cbLog>>
dispVars == <<protocol_handlers, recording_stream>>
extVars == <<recording_active, camera_active, selected_config, yielded, evCalls,
             appErr, setupResult, opack>>
vars == <<srvVars, sesVars, conVars, request_handlers, reqVars, dispVars, extVars>>

(* ------------------------------ messages ------------------------------ *)
\* the body of a message, as far as a handler reads it: the fields target and type
\* of a dataSend.open request ("" where the body has no such field)
Body(tg, ty) == [target |-> tg, type |-> ty]
NoBody == Body("", "")

Msg(t, p, tp, i, st) ==
    [type |-> t, protocol |-> p, topic |-> tp, id |-> i, status |-> st,
     message |-> NoBody]
\* decode_payload returned None
None == Msg(0, "", "", 0, 0)

\* What a payload's header dictionary holds: the discriminator key present
\* ("event", "request", "response"), or "garbage" for a payload whose header or
\* message is no valid opack value.
Payload(k, p, tp, i, st) ==
    [key |-> k, protocol |-> p, topic |-> tp, id |-> i, status |-> st,
     body |-> NoBody]

Payloads ==
    {Payload("request", "control", "hello", i, 0) : i \in Ids}
    \cup {Payload("event", "control", "hello", 0, 0),
          Payload("response", "control", "hello", 1, SUCCESS),
          Payload("request", "dataSend", "open", 1, 0),
          Payload("garbage", "", "", 0, 0)}

\* the members of the StrEnums Protocol and Topic
Protocols == {"control", "targetControl", "dataSend"}
Topics == {"hello", "whoami", "open", "data", "ack", "close"}

\* decode_payload raised: Protocol(...) or Topic(...) on lines 420-438 got a string
\* that is no member of the enum, outside the try blocks of lines 404-416
DecodeError == Msg(-2, "", "", 0, 0)

decode_payload(p) ==
    IF p.key \notin {"event", "request", "response"} THEN None
    ELSE IF p.protocol \notin Protocols \/ p.topic \notin Topics THEN DecodeError
    ELSE [(CASE p.key = "event"    -> Msg(EVENT, p.protocol, p.topic, 0, 0)
             [] p.key = "request"  -> Msg(REQUEST, p.protocol, p.topic, p.id, 0)
             [] p.key = "response" -> Msg(RESPONSE, p.protocol, p.topic, p.id, p.status))
          EXCEPT !.message = p.body]

(* ------------------------------- frames ------------------------------- *)
\* A frame on the wire: its payload-type byte, the session whose read key sealed it
\* (NoSession: no prepared session's key, or a tampered frame), the nonce it was
\* sealed under and the payload inside; plain: plaintext_payload is set.
Frame(t, k, n, p) ==
    [tag |-> t, key |-> k, nonce |-> n, payload |-> p, plain |-> FALSE]
JunkFrame == Frame(PAYLOAD_TAG, NoSession, 0, Payload("garbage", "", "", 0, 0))
UnknownTypeFrame == Frame(PAYLOAD_TAG + 1, NoSession, 0, Payload("garbage", "", "", 0, 0))

\* decode_frames keeps the frames whose payload-type byte is 1, in order
RECURSIVE decode_frames(_)
decode_frames(fs) ==
    IF fs = <<>> THEN <<>>
    ELSE IF Head(fs).tag = PAYLOAD_TAG
         THEN <<Head(fs)>> \o decode_frames(Tail(fs))
         ELSE decode_frames(Tail(fs))

(* ------------------------------ HDSCrypto ----------------------------- *)
\* ChaCha20-Poly1305 opens a frame only under the key and the nonce that sealed it
Opens(s, n, frame) == frame.key = s /\ frame.nonce = n

\* HDSCrypto.decrypt: the inbound nonce after an attempt
NonceAfterAlways(n, ok) == n + 1
NonceAfter(n, ok) == IF ok THEN n + 1 ELSE n

\* One decrypt call of the session's read cipher: (opened, inbound nonce
\* afterwards).  A frame that already has its plaintext is not opened again.
decrypt_again(s, n, frame) ==
    [ok |-> Opens(s, n, frame), nonce |-> NonceAfter(n, Opens(s, n, frame))]

decrypt(s, n, frame) ==
    IF frame.plain THEN [ok |-> TRUE, nonce |-> n]
    ELSE [ok |-> Opens(s, n, frame), nonce |-> NonceAfter(n, Opens(s, n, frame))]

(* --------------------------- DatastreamServer ------------------------- *)
\* list.remove(x): without the first occurrence of x
RECURSIVE Remove(_, _)
Remove(list, x) ==
    IF list = <<>> THEN <<>>
    ELSE IF Head(list) = x THEN Tail(list)
         ELSE <<Head(list)>> \o Remove(Tail(list), x)

Elems(list) == {list[i] : i \in 1..Len(list)}

\* identify_session, line 137: the pending list once `found` is bound
KeepSession(list, found) == list
RemoveSession(list, found) == Remove(list, found)

\* identify_session, lines 130-133: the first prepared session whose read cipher
\* opens the frame, NoSession if none does; nonce is the map of inbound nonces
RECURSIVE FirstMatch(_, _, _)
FirstMatch(list, nonce, frame) ==
    IF list = <<>> THEN NoSession
    ELSE IF decrypt(Head(list), nonce[Head(list)], frame).ok THEN Head(list)
         ELSE FirstMatch(Tail(list), nonce, frame)

\* the sessions the lazy search tried: all up to and including the match
RECURSIVE Tried(_, _)
Tried(list, found) ==
    IF list = <<>> THEN {}
    ELSE IF Head(list) = found THEN {found}
         ELSE {Head(list)} \cup Tried(Tail(list), found)

\* identify_session, lines 140-141: the connect timer of the bound session
KeepTask(task, found) == task
CancelTask(task, found) == [task EXCEPT ![found] = "cancelled"]

identify_session(list, nonce, task, frame) ==
    LET found == FirstMatch(list, nonce, frame)
        tried == Tried(list, found)
    IN [session  |-> found,
        sessions |-> IF found # NoSession THEN RemoveSession(list, found) ELSE list,
        in_nonce |-> [s \in SessionIds |->
                        IF s \in tried THEN decrypt(s, nonce[s], frame).nonce
                        ELSE nonce[s]],
        task     |-> IF found # NoSession THEN CancelTask(task, found) ELSE task]

\* DatastreamServer.close: closes the listener it holds, if it holds one
server_close(st, lis, open) ==
    IF lis # NoListener
    THEN [srvState |-> "CLOSED", srvListener |-> NoListener, openListeners |-> open \ {lis}]
    ELSE [srvState |-> st, srvListener |-> lis, openListeners |-> open]

\* _check_closeable with the lists as they are when it is called. Line 176 assigns
\* self._state, an attribute nothing reads; self.state is left as it is.
check_closeable(ses, cons) ==
    IF ses = <<>> /\ cons = <<>> /\ srvState # "CLOSING"
    THEN server_close(srvState, srvListener, openListeners)
    ELSE [srvState |-> srvState, srvListener |-> srvListener,
          openListeners |-> openListeners]

\* prepare_session up to its first suspension: the session is appended and its
\* connect timer armed; async_start returns at once unless the server is
\* UNINITIALIZED, where it awaits create_server.
prepare_session(limit) ==
    /\ nsessions < limit
    /\ LET s == nsessions + 1 IN
       /\ nsessions' = s
       /\ sessions' = Append(sessions, s)
       /\ connection_task' = [connection_task EXCEPT ![s] = "armed"]
       /\ IF srvState = "UNINITIALIZED"
          THEN /\ starting' = starting \cup {s}
               /\ port' = port
          ELSE /\ starting' = starting
               /\ port' = [port EXCEPT ![s] =
                             IF srvState = "LISTENING" THEN srvListener ELSE NoListener]
    /\ UNCHANGED <<srvState, srvListener, connections, openListeners, nlisteners,
                   nconns, in_nonce, out_nonce, conVars, request_handlers, reqVars, dispVars>>

PrepareSession == prepare_session(MaxSessions) /\ UNCHANGED extVars

\* The fields of a setup write as tlv.decode hands them over: objs.get gives None
\* for a field the write does not carry
NoField == -1
START_SESSION == 0
HOMEKIT_DATA_STREAM == 0
SessionCommandTypes == {START_SESSION}
TransportTypes == {HOMEKIT_DATA_STREAM}
SetupFields == {0, 1, NoField}

\* _set_setup_data_stream_transport up to prepare_session, lines 93-116: looking
\* up an Enum by a value that is no member raises ValueError
set_setup_data_stream_transport(command, transport_type) ==
    IF command \notin SessionCommandTypes THEN "ValueError"
    ELSE IF transport_type \notin TransportTypes THEN "ValueError"
    ELSE IF command # START_SESSION \/ transport_type # HOMEKIT_DATA_STREAM
         THEN "INVALID_VALUE_IN_REQUEST"
         ELSE "prepare_session"

\* A controller writes SetupDataStreamTransport
SetupWrite(command, transport_type) ==
    \E r \in {set_setup_data_stream_transport(command, transport_type)} :
       /\ setupResult' = [command |-> command, transport_type |-> transport_type,
                          result |-> r]
       /\ IF r = "prepare_session"
          THEN prepare_session(MaxSetups)
          ELSE UNCHANGED <<srvVars, sesVars, conVars, request_handlers, reqVars, dispVars>>
       /\ UNCHANGED <<recording_active, camera_active, selected_config, yielded,
                      evCalls, appErr, opack>>

\* async_start resumes after create_server: a new listener (lines 94-102), or the
\* failure that async_start itself catches (lines 103-105), after which
\* prepare_session stores the port None and returns the session.
CreateServerDone(s, ok) ==
    /\ s \in starting
    /\ starting' = starting \ {s}
    /\ IF ok
       THEN /\ nlisteners' = nlisteners + 1
            /\ openListeners' = openListeners \cup {nlisteners + 1}
            /\ srvListener' = nlisteners + 1
            /\ srvState' = "LISTENING"
            /\ port' = [port EXCEPT ![s] = nlisteners + 1]
       ELSE /\ srvState' = "CLOSING"
            /\ port' = [port EXCEPT ![s] = NoListener]
            /\ UNCHANGED <<nlisteners, openListeners, srvListener>>
    /\ UNCHANGED <<sessions, connections, nsessions, nconns, in_nonce, out_nonce,
                   connection_task, conVars, request_handlers, reqVars, dispVars, extVars>>

\* _timeout_session: the connect timer of a prepared session fires
TimeoutSession(s) ==
    /\ connection_task[s] = "armed"
    /\ s \in Elems(sessions)
    /\ connection_task' = [connection_task EXCEPT ![s] = "fired"]
    /\ sessions' = Remove(sessions, s)
    /\ LET r == check_closeable(Remove(sessions, s), connections) IN
       /\ srvState' = r.srvState
       /\ srvListener' = r.srvListener
       /\ openListeners' = r.openListeners
    /\ UNCHANGED <<connections, nlisteners, starting, nsessions, nconns, in_nonce,
                   out_nonce, port, conVars, request_handlers, reqVars, dispVars, extVars>>

\* _create_connection and connection_made: a controller connects to an open
\* listener; __init__ arms the 5 s hello timer.
NewConnection ==
    /\ nconns < MaxConns
    /\ openListeners # {}
    /\ LET c == nconns + 1 IN
       /\ nconns' = c
       /\ connections' = Append(connections, c)
       /\ hello_timer' = [hello_timer EXCEPT ![c] = "armed"]
       /\ transport' = [transport EXCEPT ![c] = "open"]
    /\ UNCHANGED <<srvState, srvListener, sessions, openListeners, nlisteners, starting,
                   nsessions, sesVars, state, c_session, response_handlers,
                   written, handled, first, ident, regressed, request_handlers,
                   reqVars, dispVars, extVars>>

\* DatastreamManagement.add_request_handler for (dataSend, open). What a handler
\* does with the connection it is given: "return" nothing, "close" calls close().
HandlerKinds == {"return", "close"}
AddRequestHandler(h) ==
    /\ Len(request_handlers) < MaxHandlers
    /\ request_handlers' = Append(request_handlers, h)
    /\ UNCHANGED <<srvVars, sesVars, conVars, reqVars, dispVars, extVars>>

(* ------------------------- DatastreamConnection ----------------------- *)
\* The part of the program's state one data_received call works on: the fields of
\* the connection, the server's pending list and the sessions' crypto state, with
\*   exc   the exception that is leaving data_received ("" while there is none),
\*   done  data_received has returned.
\* The handlers below take such a record and give the record after they ran.

\* close(), lines 138-142. ConnectionState is a plain Enum: the comparison on line
\* 139 raises TypeError whatever the state, and lines 141-142 are never reached.
\* close_ordered is close() as it would run if the members were ordered.
close_ordered(st) ==
    IF st >= CLOSING
    THEN [raises |-> FALSE, state |-> st, closes |-> FALSE]
    ELSE [raises |-> FALSE, state |-> CLOSING, closes |-> TRUE]
close(st) == [raises |-> TRUE, state |-> st, closes |-> FALSE]

\* an assignment self._state = st
SetState(W, st) ==
    [W EXCEPT !.state = st, !.regressed = @ \/ st < W.state]

\* a call of self.close() from inside data_received or a handler
CallClose(W) ==
    LET r == close(W.state) IN
    IF r.raises THEN [W EXCEPT !.exc = "TypeError"]
    ELSE [SetState(W, r.state) EXCEPT
            !.transport = IF r.closes /\ @ = "open" THEN "closing" ELSE @]

\* what became of the message at position W.pos of the batch
\* registered: the message's protocol had an entry in self.protocol_handlers;
\* raised: a handler raised while the message was dispatched
Log(W, what, m) ==
    [W EXCEPT !.handled = Append(@, [by |-> what, type |-> m.type, id |-> m.id,
                                    pos |-> W.pos, protocol |-> m.protocol,
                                    topic |-> m.topic,
                                    registered |-> m.protocol \in W.protocols,
                                    raised |-> FALSE])]

MarkRaised(W) == [W EXCEPT !.handled[Len(W.handled)].raised = TRUE]

\* a message that makes the payload (length byte, header, message) n bytes long
PayloadOf(n) == <<<<"payload", n>>>>

\* encode_payload, lines 451-467: the length of the payload; the other messages
\* of the model are a few bytes long
encode_payload(message) ==
    IF message = <<>> THEN 1
    ELSE IF message[1][1] = "payload" THEN message[1][2] ELSE 1

\* encode_payload, line 468
PayloadFits(length) == length <= MAX_PAYLOAD_LENGTH

\* send_frame, lines 332-342: encode_payload (which raises ValueError for a
\* payload over the limit), encode_frame (which reads self._session.crypto),
\* HDSCrypto.encrypt, transport.write
send_frame(W, kind, protocol, topic, id, status, message) ==
    IF ~PayloadFits(encode_payload(message)) THEN [W EXCEPT !.exc = "ValueError"]
    ELSE IF W.session = NoSession THEN [W EXCEPT !.exc = "AttributeError"]
    ELSE [W EXCEPT !.written = Append(@, [kind |-> kind, protocol |-> protocol,
                                         topic |-> topic, id |-> id, status |-> status,
                                         body |-> message,
                                         nonce |-> W.out_nonce[W.session],
                                         state |-> W.state]),
                   !.out_nonce[W.session] = @ + 1]

\* send_response, lines 316-330, with the status and the message given
send_response_with(W, protocol, topic, id, status, message) ==
    send_frame(W, "response", protocol, topic, id, status, message)

\* send_response with its defaults: status SUCCESS, message {}
send_response(W, protocol, topic, id) ==
    send_response_with(W, protocol, topic, id, SUCCESS, <<>>)

\* send_event without the test of line 282
send_event_always(W, protocol, topic, message) ==
    send_frame(W, "event", protocol, topic, 0, 0, message)

\* send_event, lines 277-283
send_event(W, protocol, topic, message) ==
    IF W.state = READY
    THEN send_frame(W, "event", protocol, topic, 0, 0, message)
    ELSE W

\* _handle_hello, lines 116-123, called inside the try of process_message (267-275):
\* once _hello_timer is None, line 120 raises AttributeError, which is logged there.
handle_hello(W, m) ==
    IF W.hello_timer = "none"
    THEN MarkRaised(Log(W, "hello_error", m))
    ELSE send_response(
           SetState([Log(W, "hello", m) EXCEPT !.hello_timer = "none"], READY),
           "control", "hello", m.id)

\* DatastreamManagement._handle_message: every handler registered for the message's
\* (protocol, topic), in order; an exception of a handler leaves _handle_message.
\* The body {"status": reason} of a response
StatusBody(reason) == <<<<"status", reason>>>>

\* RecordingStream.__init__, lines 33-55, and start(), line 58: the stream keeps the
\* request id, registers event handlers for dataSend on the connection
\* (add_protocol_handler changes nothing if the protocol has an entry) and creates
\* the task that will run _async_start.
NewStream(c, id) ==
    [connection |-> c, request_id |-> id, phase |-> "created", data_sequence |-> 1,
     initializing |-> TRUE]

\* RecordingManagement._handle_data_send, lines 202-287.  For an event the
\* request_id it is called with is None: send_response wraps it in Int64, and
\* encoding it raises AttributeError (None has no to_bytes).
handle_data_send(W, m) ==
    LET reject(reason) ==
            IF m.type = EVENT THEN [W EXCEPT !.exc = "AttributeError"]
            ELSE send_response_with(W, "dataSend", "open", m.id,
                                    PROTOCOL_SPECIFIC_ERROR, StatusBody(reason))
    IN IF m.message.target # "controller" \/ m.message.type # "ipcamera.recording"
       THEN reject(UNEXPECTED_FAILURE)
       ELSE IF ~W.recording_active THEN reject(NOT_ALLOWED)
       ELSE IF ~W.camera_active THEN reject(NOT_ALLOWED)
       ELSE IF W.stream # NoStream THEN reject(BUSY)
       ELSE IF ~W.selected_config THEN reject(INVALID_CONFIGURATION)
       ELSE [W EXCEPT !.stream = NewStream(W.c, IF m.type = EVENT THEN NoField
                                                ELSE m.id),
                      !.protocols = @ \cup {"dataSend"}]

\* one handler of the global registry, by what it does with the connection:
\* "return" nothing, "close" calls close(), "raise" raises, "recording" is
\* RecordingManagement._handle_data_send
RunHandler(W, h, m) ==
    CASE h = "close"     -> CallClose(W)
      [] h = "raise"     -> [W EXCEPT !.exc = "HandlerError"]
      [] h = "recording" -> handle_data_send(W, m)
      [] OTHER           -> W

\* DatastreamManagement._handle_message: every handler registered for the message's
\* (protocol, topic), in order; an exception of a handler leaves _handle_message.
RECURSIVE RunHandlers(_, _, _)
RunHandlers(W, hs, m) ==
    IF hs = <<>> \/ W.exc # "" THEN W
    ELSE RunHandlers(RunHandler(W, Head(hs), m), Tail(hs), m)

handle_message(W, m, registry) ==
    LET W1 == RunHandlers(Log(W, "catchall", m),
                          IF m.protocol = "dataSend" /\ m.topic = "open"
                          THEN registry ELSE <<>>,
                          m)
    IN IF W1.exc # "" THEN MarkRaised(W1) ELSE W1

\* self.protocol_handlers after __init__: control, with the request handler hello.
\* A RecordingStream adds dataSend, with the event handlers close and ack.
ProtocolHandlers == {"control"}
RequestTopics(protocol) == IF protocol = "control" THEN {"hello"} ELSE {}
EventTopics(protocol) == IF protocol = "dataSend" THEN {"close", "ack"} ELSE {}

WaiterIds(rh) == {h.id : h \in rh}

\* process_message, lines 218-231: a response. abort_on_unexpected is the same but
\* treats a response nobody waits for as fatal.
response_found(W, m) ==
    LET h == CHOOSE h \in W.rh : h.id = m.id IN
    [Log(W, "response_cb", m) EXCEPT
        !.rh = @ \ {h},
        !.cbLog = Append(@, [cb |-> h.cb, err |-> "none", status |-> m.status])]
abort_on_unexpected(W, m) ==
    IF m.id \notin WaiterIds(W.rh)
    THEN [Log(W, "unexpected_response", m) EXCEPT !.exc = "ProtocolError"]
    ELSE response_found(W, m)
process_response(W, m) ==
    IF m.id \notin WaiterIds(W.rh)
    THEN Log(W, "unexpected_response", m)
    ELSE response_found(W, m)

\* process_message that hands a message of a registered protocol whose topic has
\* no handler to the catch-all as well
dispatch_fallthrough(W, m, registry) ==
    IF m = None THEN Log(W, "none", m)
    ELSE IF m.type = RESPONSE THEN process_response(W, m)
    ELSE IF m.protocol \notin W.protocols THEN handle_message(W, m, registry)
    ELSE IF m.type = REQUEST /\ m.topic \in RequestTopics(m.protocol)
         THEN handle_hello(W, m)
         ELSE handle_message(W, m, registry)

\* process_message, lines 212-275
process_message(W, m, registry) ==
    IF m = None THEN Log(W, "none", m)
    ELSE IF m.type = RESPONSE THEN process_response(W, m)
    ELSE IF m.protocol \notin W.protocols THEN handle_message(W, m, registry)
    ELSE IF m.type = EVENT
         THEN IF m.topic \in EventTopics(m.protocol)
              THEN Log(W, "event_handler", m)
              ELSE Log(W, "no_handler", m)
         ELSE IF m.topic \in RequestTopics(m.protocol)
              THEN handle_hello(W, m)
              ELSE Log(W, "no_handler", m)

\* lines 209-210
RECURSIVE ProcessAll(_, _, _)
ProcessAll(W, ms, registry) ==
    IF ms = <<>> \/ W.exc # "" THEN W
    ELSE ProcessAll(process_message([W EXCEPT !.pos = @ + 1], Head(ms), registry),
                    Tail(ms), registry)

\* lines 167-181: identification by the first frame
Identify(W, frame) ==
    LET r == identify_session(W.sessions, W.in_nonce, W.task, frame) IN
    IF r.session = NoSession
    THEN [CallClose([W EXCEPT !.in_nonce = r.in_nonce, !.ident = "failed"])
            EXCEPT !.done = TRUE]
    ELSE SetState([W EXCEPT !.session = r.session, !.ident = "bound",
                            !.sessions = r.sessions, !.in_nonce = r.in_nonce,
                            !.task = r.task],
                  EXPECTING_HELLO)

\* lines 185-190: every frame goes through decrypt of the session's read cipher,
\* in order; the first that does not open ends data_received
RECURSIVE DecryptAnyway(_, _)
DecryptAnyway(W, fs) ==
    IF fs = <<>> THEN W
    ELSE LET d == decrypt(W.session, W.in_nonce[W.session], Head(fs))
         IN DecryptAnyway([W EXCEPT !.in_nonce[W.session] = d.nonce], Tail(fs))

RECURSIVE DecryptAll(_, _)
DecryptAll(W, fs) ==
    IF fs = <<>> THEN W
    ELSE LET d == decrypt(W.session, W.in_nonce[W.session], Head(fs))
             W1 == [W EXCEPT !.in_nonce[W.session] = d.nonce]
         IN IF d.ok THEN DecryptAll(W1, Tail(fs))
            ELSE [CallClose(W1) EXCEPT !.done = TRUE]

DecodeAll(fs) == [i \in 1..Len(fs) |-> decode_payload(fs[i].payload)]

\* lines 194-206: the first message of a connection that expects the hello. A first
\* payload that did not decode is None, and reading first.protocol raises.
HelloCheck(W, ms) ==
    IF W.state # EXPECTING_HELLO THEN W
    ELSE LET W1 == [W EXCEPT !.first = ms[1]] IN
         IF ms[1] = None THEN [W1 EXCEPT !.exc = "AttributeError"]
         ELSE IF ms[1].protocol = "control" /\ ms[1].topic = "hello"
              THEN SetState(W1, READY)
              ELSE [CallClose(W1) EXCEPT !.done = TRUE]

Stopped(W) == W.done \/ W.exc # ""

\* data_received, lines 156-210, on the frames decode_frames extracted
data_received(W, frames, registry) ==
    IF frames = <<>> THEN W
    ELSE LET W1 == IF W.state = UNIDENTIFIED THEN Identify(W, frames[1]) ELSE W
             W2 == IF Stopped(W1) THEN W1
                   ELSE DecryptAll(W1, IF W.state = UNIDENTIFIED
                                       THEN <<[frames[1] EXCEPT !.plain = TRUE]>>
                                            \o Tail(frames)
                                       ELSE frames)
             W3 == IF Stopped(W2) THEN W2
                   ELSE IF \E i \in 1..Len(frames) : DecodeAll(frames)[i] = DecodeError
                        THEN [W2 EXCEPT !.exc = "ValueError"]
                        ELSE HelloCheck(W2, DecodeAll(frames))
         IN IF Stopped(W3) THEN W3 ELSE ProcessAll(W3, DecodeAll(frames), registry)

View(c) ==
    [state |-> state[c], session |-> c_session[c], hello_timer |-> hello_timer[c],
     transport |-> transport[c], rh |-> response_handlers[c], written |-> written[c],
     handled |-> handled[c], first |-> first[c], cbLog |-> cbLog[c],
     ident |-> ident[c], regressed |-> regressed[c], pos |-> 0,
     sessions |-> sessions, in_nonce |-> in_nonce, out_nonce |-> out_nonce,
     task |-> connection_task, exc |-> "", done |-> FALSE,
     c |-> c, protocols |-> protocol_handlers[c], stream |-> recording_stream,
     recording_active |-> recording_active, camera_active |-> camera_active,
     selected_config |-> selected_config]

\* What can arrive on a connection. Every controller seals its frames in order, so
\* the next frame of session s carries the nonce after those the accessory has
\* opened and those ahead of it in the same batch; an intruder can replay the first
\* frame of a session (a hello request sealed under nonce 0), send bytes that no
\* session's key opens, or a frame with another payload-type byte.
InSequence(prefix, s) ==
    in_nonce[s] + Cardinality({i \in 1..Len(prefix) :
                                 /\ prefix[i].tag = PAYLOAD_TAG
                                 /\ prefix[i].key = s
                                 /\ prefix[i].nonce >= in_nonce[s]})

RECURSIVE Sum(_, _)
Sum(f, S) == IF S = {} THEN 0
             ELSE LET x == CHOOSE x \in S : TRUE IN f[x] + Sum(f, S \ {x})

Sealed(prefix) ==
    Sum([s \in SessionIds |-> InSequence(prefix, s)], SessionIds)

NextFrames(prefix) ==
    {JunkFrame, UnknownTypeFrame}
    \cup {Frame(PAYLOAD_TAG, s, InSequence(prefix, s), p) :
            s \in {x \in 1..nsessions : Sealed(prefix) < MaxFrames},
            p \in Payloads}
    \cup {Frame(PAYLOAD_TAG, s, 0, Payload("request", "control", "hello", 1, 0)) :
            s \in 1..nsessions}

\* the batches of at most n more frames that extend prefix
RECURSIVE WireBatches(_, _)
WireBatches(prefix, n) ==
    IF n = 0 THEN {prefix}
    ELSE {prefix} \cup UNION {WireBatches(Append(prefix, f), n - 1) :
                                f \in NextFrames(prefix)}

\* The same with the payloads a scenario is about: frames sealed in sequence by the
\* controllers and bytes that no session's key opens
FramesOf(prefix, payloads) ==
    {JunkFrame}
    \cup {Frame(PAYLOAD_TAG, s, InSequence(prefix, s), p) :
            s \in {x \in 1..nsessions : Sealed(prefix) < MaxFrames},
            p \in payloads}

RECURSIVE BatchesOf(_, _, _)
BatchesOf(prefix, n, payloads) ==
    IF n = 0 THEN {prefix}
    ELSE {prefix} \cup UNION {BatchesOf(Append(prefix, f), n - 1, payloads) :
                                f \in FramesOf(prefix, payloads)}

HelloPayloads == {Payload("request", "control", "hello", 1, 0)}

\* Messages for every branch of the dispatcher: the hello, a request and an event
\* of known protocols without a handler, a request the global registry knows, a
\* response, and headers whose protocol or topic string is no known identifier
DispatchPayloads ==
    {Payload("request", "control", "hello", 1, 0),
     Payload("request", "control", "whoami", 1, 0),
     Payload("event", "targetControl", "whoami", 0, 0),
     Payload("request", "dataSend", "open", 1, 0),
     Payload("response", "control", "hello", 1, SUCCESS),
     Payload("request", "fooProtocol", "hello", 1, 0),
     Payload("event", "targetControl", "fooTopic", 0, 0)}

\* The transport calls data_received with the bytes that complete the frames of
\* `batch` (bytes of an incomplete frame wait in self._buffer and change nothing
\* until the rest arrives). An exception that leaves the call makes the transport
\* close itself: connection_lost will follow.
DataReceived(c, batch) ==
    /\ transport[c] = "open"
    /\ \E W \in {data_received(View(c), decode_frames(batch), request_handlers)} :
       /\ state' = [state EXCEPT ![c] = W.state]
       /\ c_session' = [c_session EXCEPT ![c] = W.session]
       /\ hello_timer' = [hello_timer EXCEPT ![c] = W.hello_timer]
       /\ transport' = [transport EXCEPT ![c] = IF W.exc # "" THEN "aborted"
                                                ELSE W.transport]
       /\ response_handlers' = [response_handlers EXCEPT ![c] = W.rh]
       /\ written' = [written EXCEPT ![c] = W.written]
       /\ handled' = [handled EXCEPT ![c] = W.handled]
       /\ first' = [first EXCEPT ![c] = W.first]
       /\ ident' = [ident EXCEPT ![c] = W.ident]
       /\ regressed' = [regressed EXCEPT ![c] = W.regressed]
       /\ cbLog' = [cbLog EXCEPT ![c] = W.cbLog]
       /\ protocol_handlers' = [protocol_handlers EXCEPT ![c] = W.protocols]
       /\ recording_stream' = W.stream
       /\ sessions' = W.sessions
       /\ in_nonce' = W.in_nonce
       /\ out_nonce' = W.out_nonce
       /\ connection_task' = W.task
    /\ UNCHANGED <<srvState, srvListener, connections, openListeners, nlisteners,
                   starting, nsessions, nconns, port, request_handlers, reqCalls,
                   reqElapsed, extVars>>

\* connection_lost, lines 144-149, with the close handler the server added in
\* _create_connection: _connection_closed removes the connection and checks whether
\* the server can close.
ConnectionLost(c) ==
    /\ transport[c] \in {"open", "closing", "aborted"}
    /\ state' = [state EXCEPT ![c] = CLOSED]
    /\ regressed' = [regressed EXCEPT ![c] = @ \/ CLOSED < state[c]]
    /\ transport' = [transport EXCEPT ![c] = "closed"]
    /\ connections' = Remove(connections, c)
    /\ LET r == check_closeable(sessions, Remove(connections, c)) IN
       /\ srvState' = r.srvState
       /\ srvListener' = r.srvListener
       /\ openListeners' = r.openListeners
    /\ UNCHANGED <<sessions, nlisteners, starting, nsessions, nconns, sesVars,
                   c_session, hello_timer, response_handlers, written,
                   handled, first, ident, request_handlers, reqVars, dispVars, extVars>>

\* A call of close() whose exception goes to the caller: the event loop for a timer
\* callback, the application for a direct call.
CloseFromOutside(c) ==
    LET r == close(state[c]) IN
    /\ state' = [state EXCEPT ![c] = r.state]
    /\ regressed' = [regressed EXCEPT ![c] = @ \/ r.state < state[c]]
    /\ transport' = [transport EXCEPT ![c] =
                       IF r.closes /\ @ = "open" THEN "closing" ELSE @]

\* _hello_timeout, lines 125-129: the 5 s timer armed in __init__ fires. Nothing
\* cancels it but _handle_hello, so it also fires on a closed connection.
HelloTimeout(c) ==
    /\ hello_timer[c] = "armed"
    /\ hello_timer' = [hello_timer EXCEPT ![c] = "fired"]
    /\ CloseFromOutside(c)
    /\ UNCHANGED <<srvVars, sesVars, c_session, response_handlers, written,
                   handled, first, ident, request_handlers, reqVars, dispVars, extVars>>

\* the application calls close() on a connection it holds
LocalClose(c) ==
    /\ transport[c] # "none"
    /\ CloseFromOutside(c)
    /\ UNCHANGED <<srvVars, sesVars, c_session, hello_timer, response_handlers,
                   written, handled, first, ident, request_handlers, reqVars, dispVars, extVars>>

\* the attributes __init__ gives a connection, lines 95-114
Attributes ==
    {"_server", "_session", "_state", "_transport", "_buffer", "peername",
     "close_handlers", "protocol_handlers", "_response_handlers",
     "_message_callback", "_loop", "_hello_timer"}

\* the ids random.randint(1, 2**32) draws from (line 291), with MaxId for 2**32 - 1
Candidates == 1..(MaxId + 1)

\* send_request, lines 285-306, for the cb-th call on the connection, x the first
\* candidate drawn. Line 292 tests the candidate with `x not in
\* self.request_handlers`; reading an attribute the object does not have raises
\* AttributeError, which leaves send_request before line 296.
send_request(W, cb, x, message) ==
    IF "request_handlers" \notin Attributes
    THEN [W EXCEPT !.exc = "AttributeError"]
    ELSE send_frame([W EXCEPT !.rh = {h \in @ : h.id # x} \cup {[id |-> x, cb |-> cb]}],
                    "request", "dataSend", "open", x, SUCCESS, message)

SendRequest(c) ==
    /\ transport[c] # "none"
    /\ reqCalls[c] < MaxRequests
    /\ reqCalls' = [reqCalls EXCEPT ![c] = @ + 1]
    /\ \E x \in Candidates : \E W \in {send_request(View(c), reqCalls[c] + 1, x, <<>>)} :
       /\ response_handlers' = [response_handlers EXCEPT ![c] = W.rh]
       /\ written' = [written EXCEPT ![c] = W.written]
       /\ out_nonce' = W.out_nonce
    /\ UNCHANGED <<srvVars, in_nonce, connection_task, port, state, c_session,
                   hello_timer, transport, handled, first, ident, regressed,
                   request_handlers, reqElapsed, cbLog, dispVars, extVars>>

\* _request_timeout, lines 308-314, for the waiter registered by call cb
request_timeout(W, cb) ==
    IF \E h \in W.rh : h.cb = cb
    THEN LET h == CHOOSE h \in W.rh : h.cb = cb IN
         CallClose([W EXCEPT !.rh = @ \ {h},
                             !.cbLog = Append(@, [cb |-> h.cb, err |-> "timeout",
                                                  status |-> TIMEOUT])])
    ELSE W

\* Ten seconds have passed since the oldest send_request call that was not yet that
\* old: if that call armed a timer which is still armed, _request_timeout runs.
RequestDeadline(c) ==
    /\ reqElapsed[c] < reqCalls[c]
    /\ reqElapsed' = [reqElapsed EXCEPT ![c] = @ + 1]
    /\ \E W \in {request_timeout(View(c), reqElapsed[c] + 1)} :
       /\ response_handlers' = [response_handlers EXCEPT ![c] = W.rh]
       /\ cbLog' = [cbLog EXCEPT ![c] = W.cbLog]
       /\ state' = [state EXCEPT ![c] = W.state]
       /\ regressed' = [regressed EXCEPT ![c] = W.regressed]
       /\ transport' = [transport EXCEPT ![c] = W.transport]
    /\ UNCHANGED <<srvVars, sesVars, c_session, hello_timer, written,
                   handled, first, ident, request_handlers, reqCalls, dispVars,
                   extVars>>

\* The application calls send_event on a connection it holds, whatever its state
SendEvent(c) ==
    /\ transport[c] # "none"
    /\ evCalls[c] < MaxEvents
    /\ evCalls' = [evCalls EXCEPT ![c] = @ + 1]
    /\ \E W \in {send_event(View(c), "dataSend", "data", <<>>)} :
       /\ written' = [written EXCEPT ![c] = W.written]
       /\ out_nonce' = W.out_nonce
       /\ appErr' = W.exc
    /\ UNCHANGED <<srvVars, in_nonce, connection_task, port, state, c_session,
                   hello_timer, transport, response_handlers, handled, first, ident,
                   regressed, request_handlers, reqVars, dispVars, recording_active,
                   camera_active, selected_config, yielded, setupResult, opack>>

\* the three kinds of send, with a message that makes the payload n bytes long;
\* cb is the number of the call
SendKinds == {"event", "request", "response"}

send_payload(W, kind, n, cb) ==
    CASE kind = "event"    -> send_event(W, "dataSend", "data", PayloadOf(n))
      [] kind = "request"  -> send_request(W, cb, 1, PayloadOf(n))
      [] kind = "response" -> send_response_with(W, "dataSend", "open", 1, SUCCESS,
                                                 PayloadOf(n))

\* payload lengths at the limit of encode_payload
PayloadLengths == {1, MAX_PAYLOAD_LENGTH, MAX_PAYLOAD_LENGTH + 1}

\* The application sends an event, a request or a response with a payload of n
\* bytes on a connection it holds
SendPayload(c, kind, n) ==
    /\ transport[c] # "none"
    /\ evCalls[c] < MaxEvents
    /\ evCalls' = [evCalls EXCEPT ![c] = @ + 1]
    /\ \E W \in {send_payload(View(c), kind, n, evCalls[c] + 1)} :
       /\ written' = [written EXCEPT ![c] = W.written]
       /\ out_nonce' = W.out_nonce
       /\ response_handlers' = [response_handlers EXCEPT ![c] = W.rh]
       /\ appErr' = W.exc
    /\ UNCHANGED <<srvVars, in_nonce, connection_task, port, state, c_session,
                   hello_timer, transport, handled, first, ident, regressed,
                   request_handlers, reqVars, dispVars, recording_active,
                   camera_active, selected_config, yielded, setupResult, opack>>

(* --------------------------- recording stream -------------------------- *)
\* the characteristic SelectedCameraRecordingConfiguration is written
SetSelectedConfig ==
    /\ ~selected_config
    /\ selected_config' = TRUE
    /\ UNCHANGED <<srvVars, sesVars, conVars, request_handlers, reqVars, dispVars,
                   recording_active, camera_active, yielded, evCalls, appErr,
                   setupResult, opack>>

\* the characteristic HomeKitCameraActive is written
SetCameraActive(on) ==
    /\ camera_active # on
    /\ camera_active' = on
    /\ UNCHANGED <<srvVars, sesVars, conVars, request_handlers, reqVars, dispVars,
                   recording_active, selected_config, yielded, evCalls, appErr,
                   setupResult, opack>>

\* the bytes of a packet: n distinct units
Bytes(n) == [k \in 1..n |-> k]

\* the first chunk only
ChunksTruncated(fragment, offset) ==
    IF offset >= Len(fragment) THEN <<>>
    ELSE <<SubSeq(fragment, offset + 1,
                  IF offset + MaxChunk < Len(fragment) THEN offset + MaxChunk
                  ELSE Len(fragment))>>

\* The while loop of _async_start, lines 89-91: fragment[offset : offset +
\* max_chunk_size] until offset reaches len(fragment)
RECURSIVE Chunks(_, _)
Chunks(fragment, offset) ==
    IF offset >= Len(fragment) THEN <<>>
    ELSE LET data == SubSeq(fragment, offset + 1,
                            IF offset + MaxChunk < Len(fragment) THEN offset + MaxChunk
                            ELSE Len(fragment))
         IN <<data>> \o Chunks(fragment, offset + Len(data))

\* the event with dataTotalSize on every chunk
DataBodyTotalEverywhere(data, sequence, chunk, isLast, total, last, initializing) ==
    <<<<"data", data>>,
      <<"dataSequenceNumber", sequence>>,
      <<"dataChunkSequenceNumber", chunk>>,
      <<"isLastDataChunk", isLast>>,
      <<"dataTotalSize", total>>,
      <<"endOfStream", IF isLast THEN (IF last THEN "True" ELSE "False") ELSE "None">>,
      <<"dataType", IF initializing THEN "mediaInitialization" ELSE "mediaFragment">>>>

\* the event of lines 93-113, as far as the controller reassembles by it; None is
\* NoField for dataTotalSize and "None" for endOfStream
DataBody(data, sequence, chunk, isLast, total, last, initializing) ==
    <<<<"data", data>>,
      <<"dataSequenceNumber", sequence>>,
      <<"dataChunkSequenceNumber", chunk>>,
      <<"isLastDataChunk", isLast>>,
      <<"dataTotalSize", IF chunk = 1 THEN total ELSE NoField>>,
      <<"endOfStream", IF isLast THEN (IF last THEN "True" ELSE "False") ELSE "None">>,
      <<"dataType", IF initializing THEN "mediaInitialization" ELSE "mediaFragment">>>>

\* lines 89-130 for one packet: one send_event per chunk, from chunk k on;
\* `initializing` is cleared after the first pass of the loop (line 130)
RECURSIVE send_chunks(_, _, _, _)
send_chunks(W, stream, packet, k) ==
    LET chunks == Chunks(packet.data, 0) IN
    IF k > Len(chunks) THEN W
    ELSE send_chunks(send_event(W, "dataSend", "data",
                                DataBody(chunks[k], stream.data_sequence, k,
                                         k = Len(chunks), Len(packet.data), packet.last,
                                         stream.initializing /\ k = 1)),
                     stream, packet, k + 1)

\* the loop that goes on after a last packet
after_packet_continue(stream, packet) ==
    [stream EXCEPT !.data_sequence = @ + 1,
                   !.initializing = @ /\ packet.data = <<>>]

\* the stream after the body of the async for, lines 82-138: a last packet ends
\* the loop, any other advances data_sequence
after_packet(stream, packet) ==
    IF packet.last
    THEN [stream EXCEPT !.phase = "done",
                        !.initializing = @ /\ packet.data = <<>>]
    ELSE [stream EXCEPT !.data_sequence = @ + 1,
                        !.initializing = @ /\ packet.data = <<>>]

\* _async_start without its send_response
async_start_silent(W, stream) == W

\* _async_start up to its first suspension, lines 61-80: the response to the open
\* request; with the request_id None of an event send_response raises and the
\* task ends
async_start(W, stream) ==
    IF stream.request_id = NoField THEN [W EXCEPT !.exc = "AttributeError"]
    ELSE send_response_with(W, "dataSend", "open", stream.request_id, SUCCESS,
                            StatusBody(SUCCESS))

\* the task created by start() runs
StreamStart ==
    /\ recording_stream.phase = "created"
    /\ \E c \in {recording_stream.connection} :
       \E W \in {async_start(View(c), recording_stream)} :
          /\ written' = [written EXCEPT ![c] = W.written]
          /\ out_nonce' = W.out_nonce
          /\ recording_stream' = [recording_stream EXCEPT !.phase =
                                    IF W.exc # "" THEN "done" ELSE "streaming"]
    /\ UNCHANGED <<srvVars, in_nonce, connection_task, port, state, c_session,
                   hello_timer, transport, response_handlers, handled, first, ident,
                   regressed, request_handlers, reqVars, protocol_handlers, extVars>>

\* the delegate's generator yields a packet: lines 80-138
StreamPacket(data, last) ==
    /\ recording_stream.phase = "streaming"
    /\ Len(yielded) < MaxPackets
    /\ \E c \in {recording_stream.connection} :
       \E W \in {send_chunks(View(c), recording_stream,
                             [data |-> data, last |-> last], 1)} :
          /\ written' = [written EXCEPT ![c] = W.written]
          /\ out_nonce' = W.out_nonce
          /\ yielded' = Append(yielded, [data |-> data, last |-> last,
                                         sequence |-> recording_stream.data_sequence,
                                         ready |-> state[c] = READY,
                                         from |-> Len(written[c]),
                                         to |-> Len(W.written)])
    /\ recording_stream' = after_packet(recording_stream, [data |-> data, last |-> last])
    /\ UNCHANGED <<srvVars, in_nonce, connection_task, port, state, c_session,
                   hello_timer, transport, response_handlers, handled, first, ident,
                   regressed, request_handlers, reqVars, protocol_handlers,
                   recording_active, camera_active, selected_config, evCalls, appErr,
                   setupResult, opack>>

\* the delegate's generator ends without a last packet
StreamExhausted ==
    /\ recording_stream.phase = "streaming"
    /\ recording_stream' = [recording_stream EXCEPT !.phase = "done"]
    /\ UNCHANGED <<srvVars, sesVars, conVars, request_handlers, reqVars,
                   protocol_handlers, extVars>>

(* -------------------------------- opack -------------------------------- *)
\* Python values are pairs <<type, content>>: None is <<"null", 0>>, a bool
\* <<"bool", 0 or 1>>, an int <<"int", n>>, a str <<"str", code points>>, bytes
\* and bytearray <<"data", bytes>>, a list <<"list", items>>, a dict
\* <<"dict", sequence of <<key, value>> in insertion order>>.  A float read from
\* the wire (the 1-tuple struct.unpack returns) and a UUID keep their bytes.  An
\* integer above 2^31 - 1 read from the wire is kept as <<"wide", bytes>>.
NullValue == <<"null", 0>>
Bool(b) == <<"bool", IF b THEN 1 ELSE 0>>
Number(n) == <<"int", n>>
Str(chars) == <<"str", chars>>
Data(bytes) == <<"data", bytes>>
List(items) == <<"list", items>>
Dict(pairs) == <<"dict", pairs>>
\* Magics.TERMINATOR
Terminator == <<"terminator", 0>>

Pow256(k) == CASE k = 0 -> 1 [] k = 1 -> 256 [] k = 2 -> 65536 [] OTHER -> 16777216

\* int.to_bytes(size, "little") of a value the call accepts
to_bytes(value, size) ==
    [i \in 1..size |-> IF i <= 4 THEN (value \div Pow256(i - 1)) % 256 ELSE 0]

\* int.from_bytes(bytes, "little"): unsigned
from_bytes(bytes) ==
    IF \A i \in 1..Len(bytes) : i > 4 => bytes[i] = 0
    THEN IF Len(bytes) >= 4 /\ bytes[4] >= 128
         THEN <<"wide", bytes>>
         ELSE Number((IF Len(bytes) >= 1 THEN bytes[1] ELSE 0)
                  + (IF Len(bytes) >= 2 THEN bytes[2] * 256 ELSE 0)
                  + (IF Len(bytes) >= 3 THEN bytes[3] * 65536 ELSE 0)
                  + (IF Len(bytes) >= 4 THEN bytes[4] * 16777216 ELSE 0))
    ELSE <<"wide", bytes>>

\* str.encode("utf-8") of one code point (no surrogates)
utf8_char(cp) ==
    IF cp < 128 THEN <<cp>>
    ELSE IF cp < 2048 THEN <<192 + (cp \div 64), 128 + (cp % 64)>>
    ELSE IF cp < 65536
         THEN <<224 + (cp \div 4096), 128 + ((cp \div 64) % 64), 128 + (cp % 64)>>
         ELSE <<240 + (cp \div 262144), 128 + ((cp \div 4096) % 64),
                128 + ((cp \div 64) % 64), 128 + (cp % 64)>>

RECURSIVE utf8_encode(_)
utf8_encode(chars) ==
    IF chars = <<>> THEN <<>> ELSE utf8_char(Head(chars)) \o utf8_encode(Tail(chars))

Continuation(bytes, i) == i <= Len(bytes) /\ bytes[i] >= 128 /\ bytes[i] <= 191

\* bytes.decode("utf-8"), strict: the code points, or ok = FALSE for
\* UnicodeDecodeError
RECURSIVE utf8_decode(_, _)
utf8_decode(bytes, acc) ==
    IF bytes = <<>> THEN [ok |-> TRUE, chars |-> acc]
    ELSE LET b == bytes[1]
             n == IF b < 128 THEN 1
                  ELSE IF b >= 194 /\ b <= 223 THEN 2
                  ELSE IF b >= 224 /\ b <= 239 THEN 3
                  ELSE IF b >= 240 /\ b <= 244 THEN 4 ELSE 0
             cp == CASE n = 1 -> b
                     [] n = 2 -> (b - 192) * 64 + (bytes[2] - 128)
                     [] n = 3 -> (b - 224) * 4096 + (bytes[2] - 128) * 64
                                 + (bytes[3] - 128)
                     [] OTHER -> (b - 240) * 262144 + (bytes[2] - 128) * 4096
                                 + (bytes[3] - 128) * 64 + (bytes[4] - 128)
         IN IF n = 0 \/ \E i \in 2..n : ~Continuation(bytes, i)
            THEN [ok |-> FALSE, chars |-> acc]
            ELSE IF \/ n = 3 /\ (cp < 2048 \/ (cp >= 55296 /\ cp <= 57343))
                    \/ n = 4 /\ (cp < 65536 \/ cp > 1114111)
                 THEN [ok |-> FALSE, chars |-> acc]
                 ELSE utf8_decode(SubSeq(bytes, n + 1, Len(bytes)), Append(acc, cp))

(* DatastreamWriter: W.data is get_bytes(), the buffer up to self.index; W.exc
   is the exception that left the writer, "" if none. *)
NewWriter == [data |-> <<>>, exc |-> ""]

write_tag(W, tag) == [W EXCEPT !.data = Append(@, tag)]

\* size 1 stores the value in a bytearray item (ValueError outside 0..255), the
\* other sizes go through int.to_bytes (OverflowError for a negative value or
\* one that does not fit)
write_int(W, value, size) ==
    IF size = 1
    THEN IF value >= 0 /\ value <= 255
         THEN [W EXCEPT !.data = Append(@, value)]
         ELSE [W EXCEPT !.exc = "ValueError"]
    ELSE IF value >= 0 /\ (size >= 4 \/ value < Pow256(size))
         THEN [W EXCEPT !.data = @ \o to_bytes(value, size)]
         ELSE [W EXCEPT !.exc = "OverflowError"]

write_number(W, value) ==
    IF value = -1 THEN write_tag(W, INTEGER_MINUS_ONE)
    ELSE IF value >= 0 /\ value <= 39 THEN write_tag(W, INTEGER_RANGE_START_0 + value)
    ELSE IF value >= -128 /\ value <= 127 THEN write_int(write_tag(W, INT8), value, 1)
    ELSE IF value >= -32768 /\ value <= 32767
         THEN write_int(write_tag(W, INT16LE), value, 2)
    ELSE IF value >= -2147483647 - 1 /\ value <= 2147483647
         THEN write_int(write_tag(W, INT32LE), value, 4)
         ELSE write_int(write_tag(W, INT64LE), value, 8)

\* the tag and the length prefix for a string or a blob of `length` items; the
\* lengths of the model stay below 4294967295, the tiers above it are left out
write_length(W, length, inline, length8, length16, length32) ==
    IF length <= 32 THEN write_tag(W, inline + length)
    ELSE IF length <= 255 THEN write_int(write_tag(W, length8), length, 1)
    ELSE IF length <= 65535 THEN write_int(write_tag(W, length16), length, 2)
         ELSE write_int(write_tag(W, length32), length, 4)

\* length is len(value) in characters; the slice data[index : index + length]
\* receives the whole encoding, but index advances by length only, so what
\* follows overwrites the bytes of the encoding beyond length
write_utf8(W, chars) ==
    [write_length(W, Len(chars), UTF8_LENGTH_START, UTF8_LENGTH8, UTF8_LENGTH16LE,
                  UTF8_LENGTH32LE)
        EXCEPT !.data = @ \o SubSeq(utf8_encode(chars), 1, Len(chars))]

write_data(W, bytes) ==
    [write_length(W, Len(bytes), DATA_LENGTH_START, DATA_LENGTH8, DATA_LENGTH16LE,
                  DATA_LENGTH32LE)
        EXCEPT !.data = @ \o bytes]

\* key, value, key, value, ... of a dict
Flat(pairs) == [i \in 1..(2 * Len(pairs)) |-> pairs[(i + 1) \div 2][2 - (i % 2)]]

\* DatastreamParser.encode; an exception ends the whole call
RECURSIVE encode(_, _), encode_all(_, _)
encode(value, W) ==
    CASE value[1] = "null" -> write_tag(W, NULL)
      [] value[1] = "bool" -> write_tag(W, IF value[2] = 1 THEN TRUE_TAG ELSE FALSE_TAG)
      [] value[1] = "terminator" -> write_tag(W, TERMINATOR)
      [] value[1] = "int" -> write_number(W, value[2])
      [] value[1] = "str" -> write_utf8(W, value[2])
      [] value[1] = "data" -> write_data(W, value[2])
      [] value[1] = "list" ->
            LET length == Len(value[2])
                W2 == encode_all(value[2],
                                 write_tag(W, IF length <= 12
                                              THEN ARRAY_LENGTH_START + length
                                              ELSE ARRAY_TERMINATED))
            IN IF W2.exc = "" /\ length > 12 THEN write_tag(W2, TERMINATOR) ELSE W2
      [] value[1] = "dict" ->
            LET length == Len(value[2])
                W2 == encode_all(Flat(value[2]),
                                 write_tag(W, IF length <= 14
                                              THEN DICTIONARY_LENGTH_START + length
                                              ELSE DICTIONARY_TERMINATED))
            IN IF W2.exc = "" /\ length > 14 THEN write_tag(W2, TERMINATOR) ELSE W2
      [] OTHER -> [W EXCEPT !.exc = "ValueError"]

encode_all(items, W) ==
    IF items = <<>> \/ W.exc # "" THEN W
    ELSE encode_all(Tail(items), encode(Head(items), W))

(* DatastreamReader: R.data, R.index (bytes consumed), R.compressed.  A read
   gives the reader after it, the exception it raised ("" if none) and the
   value it returned. *)
NewReader(data) == [data |-> data, index |-> 0, compressed |-> <<>>]

Return(R, value) == [reader |-> R, exc |-> "", value |-> value]
Raise(R, exc) == [reader |-> R, exc |-> exc, value |-> NullValue]
track(R, value) == Return([R EXCEPT !.compressed = Append(@, value)], value)

\* _ensure(length) does not raise
ensure(R, length) == R.index + length <= Len(R.data)

Advance(R, length) == [R EXCEPT !.index = @ + length]
Slice(R, length) == SubSeq(R.data, R.index + 1, R.index + length)

\* read_int8, read_int16le, read_int32le, read_int64le
read_int(R, size, tracked) ==
    IF ~ensure(R, size) THEN Raise(R, "ValueError")
    ELSE IF tracked THEN track(Advance(R, size), from_bytes(Slice(R, size)))
         ELSE Return(Advance(R, size), from_bytes(Slice(R, size)))

\* read_float32le, read_float64le, read_date
read_float(R, size) ==
    IF ~ensure(R, size) THEN Raise(R, "ValueError")
    ELSE track(Advance(R, size), <<"float", Slice(R, size)>>)

read_utf8(R, length) ==
    IF ~ensure(R, length) THEN Raise(R, "ValueError")
    ELSE LET s == utf8_decode(Slice(R, length), <<>>)
         IN IF s.ok THEN track(Advance(R, length), Str(s.chars))
            ELSE Raise(R, "UnicodeDecodeError")

read_data(R, length) ==
    IF ~ensure(R, length) THEN Raise(R, "ValueError")
    ELSE Return(Advance(R, length), Data(Slice(R, length)))

\* an untracked length of `size` bytes, then that many bytes; a length that
\* is wider than the model's integers is longer than any input
read_length(R, size) ==
    LET L == read_int(R, size, FALSE)
    IN IF L.exc = "" /\ L.value[1] = "wide" THEN Raise(L.reader, "ValueError") ELSE L

read_utf8_length(R, size) ==
    LET L == read_length(R, size)
    IN IF L.exc # "" THEN L ELSE read_utf8(L.reader, L.value[2])

read_data_length(R, size) ==
    LET L == read_length(R, size)
    IN IF L.exc # "" THEN L ELSE read_data(L.reader, L.value[2])

\* self.data[self.index:].index(byte): the offset of the first such byte, -1
\* where index() raises ValueError
Find(R, byte) ==
    LET at == {i \in (R.index + 1)..Len(R.data) : R.data[i] = byte}
    IN IF at = {} THEN -1
       ELSE (CHOOSE i \in at : \A j \in at : i <= j) - (R.index + 1)

\* the terminating byte itself is not consumed
read_utf8_null_terminated(R) ==
    IF Find(R, 0) < 0 THEN Raise(R, "ValueError") ELSE read_utf8(R, Find(R, 0))

read_data_terminated(R) ==
    IF Find(R, TERMINATOR) < 0 THEN Raise(R, "ValueError")
    ELSE read_data(R, Find(R, TERMINATOR))

read_uuid(R) ==
    IF ~ensure(R, 16) THEN Raise(R, "ValueError")
    ELSE track(Advance(R, 16), <<"uuid", Slice(R, 16)>>)

read_compressed(R, index) ==
    IF index < Len(R.compressed) THEN Return(R, R.compressed[index + 1])
    ELSE Raise(R, "IndexError")

\* a dict key: lists, dicts (Magics.TERMINATOR is one) and bytearrays are
\* unhashable
Hashable(value) == value[1] \notin {"list", "dict", "data", "terminator"}

\* keys that are equal for a dict: True == 1 and False == 0
SameKey(a, b) ==
    \/ a = b
    \/ /\ a[1] \in {"bool", "int"}
       /\ b[1] \in {"bool", "int"}
       /\ a[2] = b[2]

\* d[key] = value
Put(pairs, key, value) ==
    IF \E i \in 1..Len(pairs) : SameKey(pairs[i][1], key)
    THEN [i \in 1..Len(pairs) |->
             IF SameKey(pairs[i][1], key) THEN <<pairs[i][1], value>> ELSE pairs[i]]
    ELSE Append(pairs, <<key, value>>)

\* dict(zip(items[0::2], items[1::2])): an item without a partner is dropped
RECURSIVE from_items(_, _, _)
from_items(R, items, pairs) ==
    IF Len(items) < 2 THEN Return(R, Dict(pairs))
    ELSE IF ~Hashable(items[1]) THEN Raise(R, "TypeError")
         ELSE from_items(R, SubSeq(items, 3, Len(items)), Put(pairs, items[1], items[2]))

\* DatastreamParser.decode.  A tag that matches no case leaves the match
\* statement, and the function returns None.
RECURSIVE decode(_), decode_list(_, _, _), decode_until(_, _), decode_dict(_, _, _)
decode(R0) ==
    IF ~ensure(R0, 1) THEN Raise(R0, "ValueError")
    ELSE LET tag == R0.data[R0.index + 1]
             R == Advance(R0, 1)
         IN CASE tag = INVALID -> Raise(R, "ValueError")
              [] tag = TRUE_TAG -> track(R, Bool(TRUE))
              [] tag = FALSE_TAG -> track(R, Bool(FALSE))
              [] tag = TERMINATOR -> Return(R, Terminator)
              [] tag = NULL -> Return(R, NullValue)
              [] tag = UUID -> read_uuid(R)
              [] tag = DATE -> read_float(R, 8)
              [] tag = INTEGER_MINUS_ONE -> track(R, Number(-1))
              [] tag >= INTEGER_RANGE_START_0 /\ tag <= INTEGER_RANGE_STOP_39 ->
                    track(R, Number(tag - INTEGER_RANGE_START_0))
              [] tag = INT8 -> read_int(R, 1, TRUE)
              [] tag = INT16LE -> read_int(R, 2, TRUE)
              [] tag = INT32LE -> read_int(R, 4, TRUE)
              [] tag = INT64LE -> read_int(R, 8, TRUE)
              [] tag = FLOAT32LE -> read_float(R, 4)
              [] tag = FLOAT64LE -> read_float(R, 8)
              [] tag >= UTF8_LENGTH_START /\ tag <= UTF8_LENGTH_STOP ->
                    read_utf8(R, tag - UTF8_LENGTH_START)
              [] tag = UTF8_LENGTH8 -> read_utf8_length(R, 1)
              [] tag = UTF8_LENGTH16LE -> read_utf8_length(R, 2)
              [] tag = UTF8_LENGTH32LE -> read_utf8_length(R, 4)
              [] tag = UTF8_LENGTH64LE -> read_utf8_length(R, 8)
              [] tag = UTF8_NULL_TERMINATED -> read_utf8_null_terminated(R)
              [] tag >= DATA_LENGTH_START /\ tag <= DATA_LENGTH_STOP ->
                    read_data(R, tag - DATA_LENGTH_START)
              [] tag = DATA_LENGTH8 -> read_data_length(R, 1)
              [] tag = DATA_LENGTH16LE -> read_data_length(R, 2)
              [] tag = DATA_LENGTH32LE -> read_data_length(R, 4)
              [] tag = DATA_LENGTH64LE -> read_data_length(R, 8)
              [] tag = DATA_TERMINATED -> read_data_terminated(R)
              [] tag >= COMPRESSION_START /\ tag <= COMPRESSION_STOP ->
                    read_compressed(R, tag - COMPRESSION_START)
              [] tag >= ARRAY_LENGTH_START /\ tag <= ARRAY_LENGTH_STOP ->
                    decode_list(R, tag - ARRAY_LENGTH_START, <<>>)
              [] tag = ARRAY_TERMINATED ->
                    LET D == decode_until(R, <<>>)
                    IN IF D.exc # "" THEN D ELSE Return(D.reader, List(D.value))
              [] tag >= DICTIONARY_LENGTH_START /\ tag <= DICTIONARY_LENGTH_STOP ->
                    decode_dict(R, tag - DICTIONARY_LENGTH_START, <<>>)
              [] tag = DICTIONARY_TERMINATED ->
                    LET D == decode_until(R, <<>>)
                    IN IF D.exc # "" THEN D ELSE from_items(D.reader, D.value, <<>>)
              [] OTHER -> Return(R, NullValue)

\* [decode(reader) for _ in range(length)]
decode_list(R, length, items) ==
    IF length = 0 THEN Return(R, List(items))
    ELSE LET D == decode(R)
         IN IF D.exc # "" THEN D
            ELSE decode_list(D.reader, length - 1, Append(items, D.value))

\* takewhile(lambda x: x != Magics.TERMINATOR, decoded): the items before the
\* first terminator
decode_until(R, items) ==
    LET D == decode(R)
    IN IF D.exc # "" THEN D
       ELSE IF D.value = Terminator THEN Return(D.reader, items)
            ELSE decode_until(D.reader, Append(items, D.value))

\* {decode(reader): decode(reader) for _ in range(length)}
decode_dict(R, length, pairs) ==
    IF length = 0 THEN Return(R, Dict(pairs))
    ELSE LET K == decode(R)
         IN IF K.exc # "" THEN K
            ELSE LET V == decode(K.reader)
                 IN IF V.exc # "" THEN V
                    ELSE IF ~Hashable(K.value) THEN Raise(V.reader, "TypeError")
                         ELSE decode_dict(V.reader, length - 1,
                                          Put(pairs, K.value, V.value))

(* Values and inputs of the codec *)
Repeat(x, n) == [i \in 1..n |-> x]

\* integers at the borders of every encoding tier that fits the model's integers
OpackIntegers ==
    (-1..40) \cup {127, 128, 255, 256, 32767, 32768, 65535, 65536, 2147483647}
             \cup {-2, -128, -129, -32768, -32769}

\* "", "a", "hi", "é", "€", "aé", and strings at the border of the inline length
OpackStrings ==
    {Str(s) : s \in {<<>>, <<97>>, <<104, 105>>, <<233>>, <<8364>>, <<97, 233>>,
                     Repeat(97, 32), Repeat(97, MaxString)}}

OpackScalars ==
    {NullValue, Bool(TRUE), Bool(FALSE)} \cup {Number(n) : n \in OpackIntegers}
        \cup OpackStrings

OpackArrays ==
    {List([i \in 1..n |-> Number(i)]) : n \in 0..MaxArray}
        \cup {List([i \in 1..n |-> Str(<<96 + i>>)]) : n \in {12, MaxArray}}
        \cup {List(<<x>>) : x \in OpackScalars}
        \cup {List(<<List(<<Number(1), NullValue>>),
                     Dict(<<<<Str(<<97>>), Bool(TRUE)>>>>)>>)}

OpackDicts ==
    {Dict([i \in 1..n |-> <<Str(<<96 + i>>), Number(i)>>]) : n \in 0..MaxDict}
        \cup {Dict([i \in 1..n |-> <<Number(i), Str(<<96 + i>>)>>]) : n \in {14, MaxDict}}
        \cup {Dict(<<<<Str(<<107>>), x>>>>) : x \in OpackScalars}
        \cup {Dict(<<<<Number(1), List(<<Bool(FALSE), NullValue>>)>>,
                     <<Str(<<97>>), Dict(<<<<Str(<<98>>), Number(2)>>>>)>>>>)}

OpackValues == OpackScalars \cup OpackArrays \cup OpackDicts

\* tag bytes that DataFormatTags does not assign
UnassignedTags == {0, 47, 52} \cup (55..63) \cup (101..110) \cup (149..158)

\* complete values in forms the encoder does not produce: terminated string,
\* blob, array and dictionary, length-prefixed string and blob, 64-bit integer,
\* floats, date, UUID, and a back-reference to the first scalar
WireForms ==
    {<<111, 97, 0>>, <<159, 1, 2, 3>>, <<223, 8, 9, 3>>, <<239, 65, 97, 8, 3>>,
     <<97, 1, 97>>, <<98, 1, 0, 97>>, <<145, 2, 1, 2>>, <<66, 195, 169>>,
     <<51, 1, 0, 0, 0, 0, 0, 0, 0>>, <<51, 0, 0, 0, 128, 0, 0, 0, 0>>,
     <<53, 0, 0, 128, 63>>, <<54>> \o Repeat(0, 8), <<6>> \o Repeat(0, 8),
     <<5>> \o Repeat(7, 16), <<210, 8, 160>>, <<211, 65, 97, 9, 161>>}

\* the strict prefixes of a byte string
Prefixes(bytes) == {SubSeq(bytes, 1, k) : k \in 0..(Len(bytes) - 1)}

Encoded(value) == encode(value, NewWriter)

\* input that ends before the value is complete
TruncatedForms ==
    UNION {Prefixes(w) : w \in WireForms}
        \cup UNION {Prefixes(Encoded(v).data) : v \in {x \in OpackValues : Encoded(x).exc = ""}}

\* a back-reference whose index is not smaller than the number of scalars
\* decoded before it: none, one, two
BackReferences ==
    {<<COMPRESSION_START + k>> : k \in 0..(COMPRESSION_STOP - COMPRESSION_START)}
        \cup {<<210, 8, 161>>, <<210, 1, 207>>, <<211, 65, 97, 9, 162>>,
              <<225, 65, 97, 161>>}

\* a terminated dictionary with one, three and five items
OddDictionaries ==
    {<<239, 8, 3>>, <<239, 65, 97, 8, 9, 3>>, <<239, 8, 9, 10, 11, 12, 3>>}

NoValue ==
    [phase |-> "none", class |-> "", value |-> NullValue, data |-> <<>>,
     exc |-> "", index |-> 0, result |-> NullValue]

\* a value handed to encode
Given(value) == [NoValue EXCEPT !.phase = "value", !.class = "value", !.value = value]

\* bytes handed to decode
Wire(class, data) == [NoValue EXCEPT !.phase = "wire", !.class = class, !.data = data]

OpackInputs ==
    {Given(v) : v \in OpackValues}
        \cup {Wire("complete", w) : w \in WireForms}
        \cup {Wire("unassigned", <<t>>) : t \in UnassignedTags}
        \cup {Wire("truncated", w) : w \in TruncatedForms}
        \cup {Wire("back_reference", w) : w \in BackReferences}
        \cup {Wire("odd_dictionary", w) : w \in OddDictionaries}

\* DatastreamParser.encode(value, DatastreamWriter()) and writer.get_bytes()
Encode ==
    /\ opack.phase = "value"
    /\ \E W \in {Encoded(opack.value)} :
          opack' = [opack EXCEPT !.phase = "encoded", !.data = W.data, !.exc = W.exc]
    /\ UNCHANGED <<srvVars, sesVars, conVars, request_handlers, reqVars, dispVars,
                   recording_active, camera_active, selected_config, yielded,
                   evCalls, appErr, setupResult>>

\* DatastreamParser.decode(DatastreamReader(data))
Decode ==
    /\ opack.phase \in {"encoded", "wire"}
    /\ opack.exc = ""
    /\ \E D \in {decode(NewReader(opack.data))} :
          opack' = [opack EXCEPT !.phase = "decoded", !.exc = D.exc,
                                 !.index = D.reader.index, !.result = D.value]
    /\ UNCHANGED <<srvVars, sesVars, conVars, request_handlers, reqVars, dispVars,
                   recording_active, camera_active, selected_config, yielded,
                   evCalls, appErr, setupResult>>

(* --------------------------- the specification ------------------------ *)
\* `first` of a connection that has not checked a hello yet
NotYet == Msg(-1, "", "", 0, 0)

\* the state after construction of the server, the connections and the services
Constructed ==
    /\ srvState = "UNINITIALIZED"
    /\ srvListener = NoListener
    /\ sessions = <<>>
    /\ connections = <<>>
    /\ openListeners = {}
    /\ nlisteners = 0
    /\ starting = {}
    /\ nsessions = 0
    /\ nconns = 0
    /\ in_nonce = [s \in SessionIds |-> 0]
    /\ out_nonce = [s \in SessionIds |-> 0]
    /\ connection_task = [s \in SessionIds |-> "none"]
    /\ port = [s \in SessionIds |-> NoListener]
    /\ state = [c \in Conns |-> UNIDENTIFIED]
    /\ c_session = [c \in Conns |-> NoSession]
    /\ hello_timer = [c \in Conns |-> "none"]
    /\ transport = [c \in Conns |-> "none"]
    /\ response_handlers = [c \in Conns |-> {}]
    /\ written = [c \in Conns |-> <<>>]
    /\ handled = [c \in Conns |-> <<>>]
    /\ first = [c \in Conns |-> NotYet]
    /\ ident = [c \in Conns |-> "none"]
    /\ regressed = [c \in Conns |-> FALSE]
    /\ request_handlers = <<>>
    /\ reqCalls = [c \in Conns |-> 0]
    /\ reqElapsed = [c \in Conns |-> 0]
    /\ cbLog = [c \in Conns |-> <<>>]
    /\ protocol_handlers = [c \in Conns |-> ProtocolHandlers]
    /\ recording_stream = NoStream
    /\ recording_active = TRUE
    /\ camera_active = TRUE
    /\ selected_config = FALSE
    /\ yielded = <<>>
    /\ evCalls = [c \in Conns |-> 0]
    /\ appErr = ""
    /\ setupResult = [command |-> NoField, transport_type |-> NoField, result |-> "none"]

Init == Constructed /\ opack = NoValue

Next ==
    \/ PrepareSession
    \/ \E s \in SessionIds, ok \in BOOLEAN : CreateServerDone(s, ok)
    \/ \E s \in SessionIds : TimeoutSession(s)
    \/ NewConnection
    \/ \E h \in HandlerKinds : AddRequestHandler(h)
    \/ \E c \in Conns : \E batch \in WireBatches(<<>>, MaxBatch) : DataReceived(c, batch)
    \/ \E c \in Conns : ConnectionLost(c)
    \/ \E c \in Conns : HelloTimeout(c)
    \/ \E c \in Conns : LocalClose(c)

Spec == Init /\ [][Next]_vars

\* The accessory's own requests: one controller, one connection, and an application
\* that calls send_request on the connection and lets the ten seconds pass.
NextReq ==
    \/ PrepareSession
    \/ \E s \in SessionIds, ok \in BOOLEAN : CreateServerDone(s, ok)
    \/ \E s \in SessionIds : TimeoutSession(s)
    \/ nconns = 0 /\ NewConnection
    \/ \E c \in Conns : \E batch \in WireBatches(<<>>, MaxBatch) : DataReceived(c, batch)
    \/ \E c \in Conns : ConnectionLost(c)
    \/ \E c \in Conns : HelloTimeout(c)
    \/ \E c \in Conns : SendRequest(c)
    \/ \E c \in Conns : RequestDeadline(c)

SpecReq == Init /\ [][NextReq]_vars

\* Events of the accessory: one controller, one connection, and an application
\* that calls send_event on the connection at any time.
NextEvt ==
    \/ PrepareSession
    \/ \E s \in SessionIds, ok \in BOOLEAN : CreateServerDone(s, ok)
    \/ \E s \in SessionIds : TimeoutSession(s)
    \/ nconns = 0 /\ NewConnection
    \/ \E c \in Conns : \E batch \in WireBatches(<<>>, MaxBatch) : DataReceived(c, batch)
    \/ \E c \in Conns : ConnectionLost(c)
    \/ \E c \in Conns : HelloTimeout(c)
    \/ \E c \in Conns : SendEvent(c)

SpecEvt == Init /\ [][NextEvt]_vars

\* Payload limit: one controller, one connection, and an application that sends
\* events, requests and responses with payloads at the limit.
NextPayload ==
    \/ PrepareSession
    \/ \E s \in SessionIds, ok \in BOOLEAN : CreateServerDone(s, ok)
    \/ nconns = 0 /\ NewConnection
    \/ \E c \in Conns : \E batch \in BatchesOf(<<>>, 1, HelloPayloads) :
          DataReceived(c, batch)
    \/ \E c \in Conns : ConnectionLost(c)
    \/ \E c \in Conns, kind \in SendKinds, n \in PayloadLengths :
          SendPayload(c, kind, n)

SpecPayload == Init /\ [][NextPayload]_vars

\* Dispatch: one controller and one connection, handlers in the global registry
\* that return or raise, and messages for every branch of the dispatcher.
DispatchHandlerKinds == {"return", "raise"}

NextDispatch ==
    \/ PrepareSession
    \/ \E s \in SessionIds, ok \in BOOLEAN : CreateServerDone(s, ok)
    \/ \E s \in SessionIds : TimeoutSession(s)
    \/ nconns = 0 /\ NewConnection
    \/ \E h \in DispatchHandlerKinds : AddRequestHandler(h)
    \/ \E c \in Conns : \E batch \in BatchesOf(<<>>, MaxBatch, DispatchPayloads) :
          DataReceived(c, batch)
    \/ \E c \in Conns : ConnectionLost(c)
    \/ \E c \in Conns : HelloTimeout(c)

SpecDispatch == Init /\ [][NextDispatch]_vars

\* Setup: controllers write SetupDataStreamTransport, the writes may overlap in
\* create_server, and one controller connects and says hello.

NextSetup ==
    \/ \E command \in SetupFields, transport_type \in SetupFields :
          SetupWrite(command, transport_type)
    \/ \E s \in SessionIds, ok \in BOOLEAN : CreateServerDone(s, ok)
    \/ \E s \in SessionIds : TimeoutSession(s)
    \/ nconns = 0 /\ NewConnection
    \/ \E c \in Conns : \E batch \in BatchesOf(<<>>, 1, HelloPayloads) :
          DataReceived(c, batch)
    \/ \E c \in Conns : ConnectionLost(c)

SpecSetup == Init /\ [][NextSetup]_vars

\* Recording: RecordingManagement registers its handler, controllers set up
\* sessions, connect, say hello and open streams; the stream's task sends what the
\* delegate yields.
OpenPayload(target, type, id) ==
    [Payload("request", "dataSend", "open", id, 0) EXCEPT !.body = Body(target, type)]

OpenPayloads ==
    {OpenPayload("controller", "ipcamera.recording", i) : i \in Ids}
    \cup {OpenPayload("accessory", "ipcamera.recording", 1)}

RecordingPayloads ==
    HelloPayloads
    \cup {OpenPayload("controller", "ipcamera.recording", 1),
          OpenPayload("accessory", "ipcamera.recording", 1)}

NextRecording ==
    \/ AddRequestHandler("recording")
    \/ SetupWrite(START_SESSION, HOMEKIT_DATA_STREAM)
    \/ \E s \in SessionIds, ok \in BOOLEAN : CreateServerDone(s, ok)
    \/ NewConnection
    \/ \E c \in Conns : \E batch \in BatchesOf(<<>>, 1, RecordingPayloads) :
          DataReceived(c, batch)
    \/ \E c \in Conns : ConnectionLost(c)
    \/ SetSelectedConfig
    \/ \E on \in BOOLEAN : SetCameraActive(on)
    \/ StreamStart
    \/ \E last \in BOOLEAN : StreamPacket(Bytes(MaxChunk + 1), last)
    \/ StreamExhausted

SpecRecording == Init /\ [][NextRecording]_vars

\* Streaming: one controller opens a stream and the delegate yields packets of
\* every length up to MaxPacket, the empty packet included.
StreamPayloads ==
    RecordingPayloads
    \cup {Payload("event", "dataSend", "close", 0, 0),
          Payload("event", "dataSend", "ack", 0, 0)}

NextStream ==
    \/ AddRequestHandler("recording")
    \/ PrepareSession
    \/ \E s \in SessionIds, ok \in BOOLEAN : CreateServerDone(s, ok)
    \/ nconns = 0 /\ NewConnection
    \/ \E c \in Conns : \E batch \in BatchesOf(<<>>, 1, StreamPayloads) :
          DataReceived(c, batch)
    \/ \E c \in Conns : ConnectionLost(c)
    \/ SetSelectedConfig
    \/ StreamStart
    \/ \E n \in 0..MaxPacket, last \in BOOLEAN : StreamPacket(Bytes(n), last)
    \/ StreamExhausted

SpecStream == Init /\ [][NextStream]_vars

\* The codec: a value is encoded and the bytes are decoded again, or bytes from
\* the wire are decoded.
InitOpack == Constructed /\ opack \in OpackInputs

NextOpack ==
    \/ Encode
    \/ Decode

SpecOpack == InitOpack /\ [][NextOpack]_vars

(* ------------------------------ properties ---------------------------- *)
\* the transport delivers no more data to the connection
Shut(c) == transport[c] \in {"closing", "aborted", "closed"}

IsHelloRequest(m) == m.type = REQUEST /\ m.protocol = "control" /\ m.topic = "hello"

Dispatched(c) == {handled[c][k].by : k \in DOMAIN handled[c]}

\* C1: the state of a connection only moves forward along Unidentified,
\* ExpectingHello, Ready, Closing, Closed: no assignment to the state lowers it,
\* whatever the order of frames, timers, handlers and transport events.
C1_StateOnlyForward ==
    /\ [](\A c \in Conns : ~regressed[c])
    /\ [][\A c \in Conns : state'[c] >= state[c]]_vars

\* a connection that answered the hello, then had an application handler call
\* close() on a later request, and was lost
C1_Witness ==
    \E c \in Conns :
        /\ state[c] = CLOSED
        /\ request_handlers = <<"close">>
        /\ {"hello", "catchall"} \subseteq Dispatched(c)

\* C2: a prepared session is bound to at most one connection. Binding removes it
\* from the pending sessions and cancels its connect timer, and a connection whose
\* first frame finds no pending session is not bound and is closed.
C2_OneConnectionPerSession ==
    \A c \in Conns :
        /\ \A d \in Conns :
              c # d /\ c_session[c] # NoSession => c_session[d] # c_session[c]
        /\ c_session[c] # NoSession =>
              /\ c_session[c] \notin Elems(sessions)
              /\ connection_task[c_session[c]] = "cancelled"
        /\ ident[c] = "failed" => c_session[c] = NoSession /\ Shut(c)

\* one connection holds the session and another one presented a first frame
\* that found no pending session
C2_Witness ==
    \E c, d \in Conns :
        /\ c_session[c] # NoSession
        /\ ident[d] = "failed"
        /\ Shut(d)

\* C3: a connection whose first frame no pending session opens is closed without
\* ever expecting the hello or being ready and without a message dispatched or a
\* frame written; the failed trials leave the pending sessions as they were: still
\* pending, connect timer armed, inbound nonce 0.
C3_FailedIdentification ==
    /\ [](\A c \in Conns :
            ident[c] = "failed" =>
                /\ state[c] \notin {EXPECTING_HELLO, READY}
                /\ Shut(c)
                /\ handled[c] = <<>>
                /\ written[c] = <<>>
                /\ first[c] = NotYet)
    /\ [](\A s \in Elems(sessions) :
            in_nonce[s] = 0 /\ connection_task[s] = "armed")
    /\ [][\A c \in Conns :
            ident[c] = "none" /\ ident'[c] = "failed" =>
                /\ sessions' = sessions
                /\ in_nonce' = in_nonce
                /\ connection_task' = connection_task]_vars

\* a connection failed identification while a session was pending, and the
\* session is pending still
C3_Witness ==
    \E c \in Conns :
        /\ ident[c] = "failed"
        /\ Shut(c)
        /\ sessions # <<>>

\* C4: a connection becomes ready only if the first message it decoded was a
\* request control.hello; after any other first message, or none decodable, it is
\* closed, is not ready and no handler has been invoked.
C4_ReadyOnlyByHelloRequest ==
    \A c \in Conns :
        /\ state[c] = READY => IsHelloRequest(first[c])
        /\ first[c] # NotYet /\ ~IsHelloRequest(first[c]) =>
              /\ Shut(c)
              /\ Dispatched(c) \cap {"hello", "hello_error", "catchall"} = {}

\* the control.hello requests with id i that reached the hello handler
HelloRequests(c, i) ==
    {k \in DOMAIN handled[c] :
        /\ handled[c][k].by \in {"hello", "hello_error"}
        /\ handled[c][k].id = i}

\* the successful, empty control/hello responses with id i, written when ready
HelloResponses(c, i) ==
    {k \in DOMAIN written[c] :
        /\ written[c][k].kind = "response"
        /\ written[c][k].protocol = "control"
        /\ written[c][k].topic = "hello"
        /\ written[c][k].id = i
        /\ written[c][k].status = SUCCESS
        /\ written[c][k].body = <<>>
        /\ written[c][k].state = READY}

\* C5: every control.hello request is answered exactly once: as many responses
\* control/hello with its id, status success and empty body were written, in
\* Ready, as requests with that id were handled.
C5_EveryHelloAnswered ==
    \A c \in Conns : \A i \in Ids :
        Cardinality(HelloResponses(c, i)) = Cardinality(HelloRequests(c, i))

\* C6: when the hello timer fires on an open connection that has not completed
\* the handshake, the connection goes to Closing and its transport is closed.
C6_HelloTimeoutCloses ==
    [][\A c \in Conns :
        /\ hello_timer[c] = "armed"
        /\ hello_timer'[c] = "fired"
        /\ state[c] \in {UNIDENTIFIED, EXPECTING_HELLO}
        /\ transport[c] = "open"
        => state'[c] = CLOSING /\ transport'[c] # "open"]_vars

Waiting(c, r) == \E h \in response_handlers[c] : h.cb = r

Invocations(c, r) == {k \in DOMAIN cbLog[c] : cbLog[c][k].cb = r}

\* C7: on a ready connection every request made and not yet ten seconds old is
\* either waiting for its response or had its callback invoked exactly once, with
\* the response and no error.
C7_EveryRequestAnsweredOnce ==
    \A c \in Conns :
        state[c] = READY /\ transport[c] = "open" =>
            \A r \in (reqElapsed[c] + 1)..reqCalls[c] :
                \/ Waiting(c, r) /\ Invocations(c, r) = {}
                \/ /\ ~Waiting(c, r)
                   /\ Cardinality(Invocations(c, r)) = 1
                   /\ \A k \in Invocations(c, r) : cbLog[c][k].err = "none"

\* C8: a request that is ten seconds old waits no longer and had its callback
\* invoked at most once; if it was never invoked the connection was closed
\* before, and if it was invoked with the timeout, the status is TIMEOUT and the
\* connection is closed.
C8_TimeoutFailsRequest ==
    \A c \in Conns : \A r \in 1..reqElapsed[c] :
        /\ ~Waiting(c, r)
        /\ Cardinality(Invocations(c, r)) <= 1
        /\ Invocations(c, r) = {} => transport[c] # "open"
        /\ \A k \in Invocations(c, r) :
              cbLog[c][k].err = "timeout" =>
                  /\ cbLog[c][k].status = TIMEOUT
                  /\ state[c] \in {CLOSING, CLOSED}
                  /\ transport[c] # "open"

\* C9: every send_request registers one waiter under an id of the id width that
\* was no key of the waiter table, so the ids of the waiters are distinct.
C9_FreshRequestId ==
    [][\A c \in Conns :
        reqCalls'[c] = reqCalls[c] + 1 =>
            /\ \E h \in response_handlers'[c] \ response_handlers[c] :
                  /\ h.id \in 0..MaxId
                  /\ h.id \notin WaiterIds(response_handlers[c])
                  /\ h.cb = reqCalls'[c]
            /\ Cardinality(WaiterIds(response_handlers'[c]))
                 = Cardinality(response_handlers'[c])]_vars

\* the responses a controller can send
ResponseMsgs == {Msg(RESPONSE, "control", "hello", i, SUCCESS) : i \in Ids}

\* C10: a response whose id is no key of the waiter table is discarded: no
\* callback, no change of the waiter table, of the state or of the transport, no
\* frame written, no exception; and the message after it in the batch has the
\* effect it has without the response before it.
C10_UnexpectedResponseDiscarded ==
    \A c \in Conns :
        c_session[c] # NoSession /\ transport[c] = "open" =>
            \A m \in ResponseMsgs :
                m.id \notin WaiterIds(response_handlers[c]) =>
                    LET W  == View(c)
                        W1 == process_message(W, m, request_handlers)
                    IN /\ W1.exc = ""
                       /\ W1.cbLog = W.cbLog
                       /\ W1.rh = W.rh
                       /\ W1.state = W.state
                       /\ W1.transport = W.transport
                       /\ W1.hello_timer = W.hello_timer
                       /\ W1.written = W.written
                       /\ \A p \in Payloads :
                            LET m2 == decode_payload(p)
                                A == ProcessAll(W, <<m2>>, request_handlers)
                                B == ProcessAll(W, <<m, m2>>, request_handlers)
                            IN /\ B.exc = A.exc
                               /\ B.state = A.state
                               /\ B.written = A.written
                               /\ B.hello_timer = A.hello_timer
                               /\ Len(B.handled) = Len(A.handled) + 1

\* a ready connection discarded a response and handled the next message of the
\* same batch
C10_Witness ==
    \E c \in Conns : \E k \in DOMAIN handled[c] :
        /\ handled[c][k].by = "unexpected_response"
        /\ k + 1 \in DOMAIN handled[c]
        /\ handled[c][k + 1].pos = handled[c][k].pos + 1
        /\ handled[c][k + 1].by \in {"hello", "hello_error", "catchall", "no_handler"}
        /\ state[c] = READY
        /\ transport[c] = "open"

EventsWritten(c) == {k \in DOMAIN written[c] : written[c][k].kind = "event"}

\* C11: a send_event call raises nothing; on a connection that is not Ready it
\* writes nothing and leaves the outbound nonces alone; on a Ready connection it
\* writes exactly one frame, an event sealed under the session's outbound nonce,
\* and advances that nonce by one.
C11_EventOnlyWhenReady ==
    [][\A c \in Conns :
        evCalls'[c] = evCalls[c] + 1 =>
            /\ appErr' = ""
            /\ IF state[c] = READY
               THEN /\ Len(written'[c]) = Len(written[c]) + 1
                    /\ SubSeq(written'[c], 1, Len(written[c])) = written[c]
                    /\ written'[c][Len(written'[c])].kind = "event"
                    /\ written'[c][Len(written'[c])].nonce = out_nonce[c_session[c]]
                    /\ out_nonce' = [out_nonce EXCEPT ![c_session[c]] = @ + 1]
               ELSE /\ written' = written
                    /\ out_nonce' = out_nonce]_vars

\* send_event was called on a connection once when it was not Ready and once
\* when it was
C11_Witness ==
    \E c \in Conns :
        /\ evCalls[c] = 2
        /\ Cardinality(EventsWritten(c)) = 1
        /\ state[c] = READY

\* C12: a dispatched message went to the catch-all message callback exactly if it
\* was an event or a request whose protocol had no entry in the connection's
\* protocol handlers; then no per-protocol handler got it. A message whose protocol
\* had an entry, and a response, never went to the catch-all.
C12_CatchAllRouting ==
    \A c \in Conns : \A k \in DOMAIN handled[c] :
        handled[c][k].by = "catchall"
            <=> /\ handled[c][k].type \in {EVENT, REQUEST}
                /\ ~handled[c][k].registered

\* one connection answered a hello, dispatched a message to the catch-all and found
\* no handler for a message of a registered protocol
C12_Witness ==
    \E c \in Conns : {"hello", "catchall", "no_handler"} \subseteq Dispatched(c)

\* C13: a step in which a handler raised while a message was dispatched leaves the
\* connection open and Ready.
C13_HandlerErrorIsolated ==
    [][\A c \in Conns :
        (\E k \in (Len(handled[c]) + 1)..Len(handled'[c]) : handled'[c][k].raised)
            => transport'[c] = "open" /\ state'[c] = READY]_vars

\* the payloads whose protocol or topic is no known identifier
UnknownPayloads ==
    {p \in DispatchPayloads : p.protocol \notin Protocols \/ p.topic \notin Topics}

\* the next frame the controller of connection c seals, carrying payload p
NextFrame(c, p) == Frame(PAYLOAD_TAG, c_session[c], in_nonce[c_session[c]], p)

\* C14: on a Ready connection a well-sealed message with an unknown protocol or
\* topic string raises nothing and reaches the dispatcher, which logs it once; the
\* connection stays Ready and open.
C14_UnknownStringsReachDispatcher ==
    \A c \in Conns :
        state[c] = READY /\ transport[c] = "open" =>
            \A p \in UnknownPayloads :
                LET W == data_received(View(c), <<NextFrame(c, p)>>, request_handlers)
                IN /\ W.exc = ""
                   /\ W.state = READY
                   /\ W.transport = "open"
                   /\ Len(W.handled) = Len(handled[c]) + 1

\* C15: at most one listener is open at every moment, and a port that
\* prepare_session returned and that is still open is the server's listener.
C15_SingleListener ==
    /\ Cardinality(openListeners) <= 1
    /\ \A s \in SessionIds : port[s] \in openListeners => port[s] = srvListener

\* C16: the last setup write whose session command was not start or whose
\* transport type was not HomeKit Data Stream, a missing field included, returned
\* InvalidValueInRequest.
C16_InvalidSetupRejected ==
    (setupResult.result # "none"
        /\ (setupResult.command # START_SESSION
            \/ setupResult.transport_type # HOMEKIT_DATA_STREAM))
    => setupResult.result = "INVALID_VALUE_IN_REQUEST"

\* what a call of data_received with the next frame of connection c's controller,
\* carrying payload p, leaves behind
AfterFrame(c, p) == data_received(View(c), <<NextFrame(c, p)>>, request_handlers)

\* the reason the first condition that holds gives for rejecting the open request
\* p, SUCCESS if none holds
Rejection(p) ==
    IF p.body.target # "controller" \/ p.body.type # "ipcamera.recording"
    THEN UNEXPECTED_FAILURE
    ELSE IF ~recording_active THEN NOT_ALLOWED
    ELSE IF ~camera_active THEN NOT_ALLOWED
    ELSE IF recording_stream # NoStream THEN BUSY
    ELSE IF ~selected_config THEN INVALID_CONFIGURATION
    ELSE SUCCESS

\* W has exactly one frame more written than connection c has now: a response to
\* dataSend.open with the given id, PROTOCOL_SPECIFIC_ERROR and the reason as its
\* body
OneRejection(W, c, id, reason) ==
    /\ Len(W.written) = Len(written[c]) + 1
    /\ SubSeq(W.written, 1, Len(written[c])) = written[c]
    /\ LET r == W.written[Len(W.written)] IN
       /\ r.kind = "response"
       /\ r.protocol = "dataSend"
       /\ r.topic = "open"
       /\ r.id = id
       /\ r.status = PROTOCOL_SPECIFIC_ERROR
       /\ r.body = StatusBody(reason)

\* a connection on which a controller can send a request to RecordingManagement
Serving(c) ==
    /\ state[c] = READY
    /\ transport[c] = "open"
    /\ request_handlers = <<"recording">>

\* C17: a dataSend.open request that one of the conditions rejects is answered by
\* exactly one response with its id, PROTOCOL_SPECIFIC_ERROR and the reason of the
\* first condition that holds, and leaves the recording stream as it was.
C17_RejectionOrder ==
    \A c \in Conns : Serving(c) =>
        \A p \in OpenPayloads :
            Rejection(p) # SUCCESS =>
                /\ OneRejection(AfterFrame(c, p), c, p.id, Rejection(p))
                /\ AfterFrame(c, p).stream = recording_stream

\* C18: while a recording stream is active, a valid dataSend.open request on any
\* connection, the stream's own included, is answered by exactly one response with
\* its id, PROTOCOL_SPECIFIC_ERROR and the body {status: Busy}.
C18_BusyOnEveryConnection ==
    \A c \in Conns :
        (Serving(c) /\ recording_stream # NoStream /\ recording_active /\ camera_active)
        => \A i \in Ids :
              OneRejection(AfterFrame(c, OpenPayload("controller", "ipcamera.recording", i)),
                           c, i, BUSY)

\* the positions in what connection c wrote that hold the SUCCESS response to the
\* open request of the recording stream, and those that hold dataSend.data events
OpenResponses(c) ==
    {k \in DOMAIN written[c] :
        /\ written[c][k].kind = "response"
        /\ written[c][k].protocol = "dataSend"
        /\ written[c][k].topic = "open"
        /\ written[c][k].id = recording_stream.request_id
        /\ written[c][k].status = SUCCESS
        /\ written[c][k].body = StatusBody(SUCCESS)}

DataEvents(c) ==
    {k \in DOMAIN written[c] :
        /\ written[c][k].kind = "event"
        /\ written[c][k].protocol = "dataSend"
        /\ written[c][k].topic = "data"}

\* C19: once the task of an accepted open request with id i has run, its
\* connection has written exactly one response with id i, SUCCESS and the body
\* {status: 0}, and every dataSend.data event comes after it; no connection writes
\* a dataSend.data event without such a response before it.
C19_OpenResponseFirst ==
    /\ \A c \in Conns :
          \A d \in DataEvents(c) :
              /\ recording_stream # NoStream
              /\ c = recording_stream.connection
              /\ \E r \in OpenResponses(c) : r < d
    /\ recording_stream # NoStream =>
          Cardinality(OpenResponses(recording_stream.connection))
              = IF recording_stream.phase = "created" THEN 0 ELSE 1

\* the stream answered its open request and sent a data event
C19_Witness ==
    /\ recording_stream # NoStream
    /\ recording_stream.phase # "created"
    /\ DataEvents(recording_stream.connection) # {}

\* the data events connection c wrote for the packet with sequence number n
EventsOf(c, n) ==
    LET OfPacket(e) == /\ e.kind = "event"
                       /\ e.protocol = "dataSend"
                       /\ e.topic = "data"
                       /\ e.body[2][2] = n
    IN SelectSeq(written[c], OfPacket)

RECURSIVE Concat(_)
Concat(events) ==
    IF events = <<>> THEN <<>>
    ELSE Head(events).body[1][2] \o Concat(Tail(events))

\* C20: the data events sent for a packet the delegate yielded while the
\* connection was Ready carry chunks of at most MaxChunk units, every chunk but
\* the last exactly MaxChunk, numbered in the order they were written, and the
\* chunks joined in that order are the packet's bytes; a packet yielded while the
\* connection was not Ready has no events (send_event sends nothing then).
C20_ChunksJoinToPacket ==
    recording_stream # NoStream =>
        \A j \in DOMAIN yielded :
            LET y == yielded[j]
                events == EventsOf(recording_stream.connection, y.sequence)
            IN IF ~y.ready THEN events = <<>>
               ELSE /\ Concat(events) = y.data
                    /\ \A k \in DOMAIN events :
                          /\ Len(events[k].body[1][2]) <= MaxChunk
                          /\ k < Len(events) => Len(events[k].body[1][2]) = MaxChunk
                          /\ events[k].body[3][2] = k
                          /\ events[k].body[4][2] = (k = Len(events))

\* a packet longer than one chunk and no multiple of it was sent in two events
C20_Witness ==
    /\ recording_stream # NoStream
    /\ \E j \in DOMAIN yielded :
          /\ yielded[j].ready
          /\ Len(yielded[j].data) = MaxChunk + 1
          /\ Len(EventsOf(recording_stream.connection, yielded[j].sequence)) = 2

\* the frames the stream's connection wrote while packet j was sent
Sent(j) ==
    SubSeq(written[recording_stream.connection], yielded[j].from + 1, yielded[j].to)

\* C21: in the events of the j-th packet the delegate yielded,
\* dataSequenceNumber is j, dataChunkSequenceNumber counts the chunks from 1,
\* isLastDataChunk is true on the last chunk only, and dataTotalSize is the
\* packet's length on chunk 1 and null on the others.
C21_PacketMetadata ==
    \A j \in DOMAIN yielded :
        \A k \in DOMAIN Sent(j) :
            /\ Sent(j)[k].kind = "event"
            /\ Sent(j)[k].topic = "data"
            /\ Sent(j)[k].body[2][2] = j
            /\ Sent(j)[k].body[3][2] = k
            /\ Sent(j)[k].body[4][2] = (k = Len(Sent(j)))
            /\ Sent(j)[k].body[5][2] = IF k = 1 THEN Len(yielded[j].data) ELSE NoField

\* the second packet of a stream was sent in two chunks
C21_Witness ==
    \E j \in DOMAIN yielded : j > 1 /\ Len(Sent(j)) = 2

\* C22: endOfStream is true on the last chunk of the packet with last = true and
\* null on every other event of the stream.
C22_EndOfStreamOnlyAtEnd ==
    \A j \in DOMAIN yielded :
        \A k \in DOMAIN Sent(j) :
            Sent(j)[k].body[6][2] =
                IF k = Len(Sent(j)) /\ yielded[j].last THEN "True" ELSE "None"

\* C23: every event of the first packet the delegate yielded carries dataType
\* mediaInitialization and every event of a later packet mediaFragment.
C23_FirstPacketInitializes ==
    \A j \in DOMAIN yielded :
        \A k \in DOMAIN Sent(j) :
            Sent(j)[k].body[7][2] =
                IF j = 1 THEN "mediaInitialization" ELSE "mediaFragment"

\* the delegate has yielded a packet with last = true
LastYielded == \E j \in DOMAIN yielded : yielded[j].last

\* C24: once the packet with last = true has been sent, the stream pulls no
\* further packet from the generator and no connection writes another
\* dataSend.data event.
C24_StreamEndsAfterLast ==
    [][LastYielded =>
          /\ yielded' = yielded
          /\ \A c \in Conns : DataEvents(c)' = DataEvents(c)]_vars

\* the stream sent the chunks of a last packet and its loop has ended
C24_Witness ==
    /\ recording_stream.phase = "done"
    /\ \E j \in DOMAIN yielded : yielded[j].last /\ Len(Sent(j)) > 0

\* in this step connection c gave a dataSend event with the given topic to the
\* handler the recording stream registered
StreamEventHandled(c, topic) ==
    /\ Len(handled'[c]) = Len(handled[c]) + 1
    /\ handled'[c][Len(handled'[c])].by = "event_handler"
    /\ handled'[c][Len(handled'[c])].protocol = "dataSend"
    /\ handled'[c][Len(handled'[c])].topic = topic

\* C25: the step that handles a dataSend.close event for the active stream frees
\* the recording slot and removes the stream's dataSend entry from the
\* connection's protocol handlers; the step that handles a dataSend.ack event
\* changes neither.
C25_CloseReleasesStream ==
    [][\A c \in Conns :
        /\ StreamEventHandled(c, "close") =>
              /\ recording_stream' = NoStream
              /\ "dataSend" \notin protocol_handlers'[c]
        /\ StreamEventHandled(c, "ack") =>
              UNCHANGED <<recording_stream, protocol_handlers>>]_vars

\* the connection that carries the recording stream has reached Closed
StreamConnectionClosed ==
    IF recording_stream = NoStream THEN FALSE
    ELSE state[recording_stream.connection] = CLOSED

\* C27: once the connection that carries the recording stream is Closed, the
\* stream pulls no further packet from the delegate's generator.
C27_NoPullAfterClosed ==
    [][StreamConnectionClosed => yielded' = yielded]_vars

\* C26: a connection that is Closed has no armed hello timer and no pending
\* response waiter.
C26_ClosedConnectionHoldsNothing ==
    \A c \in Conns :
        state[c] = CLOSED =>
            /\ hello_timer[c] # "armed"
            /\ response_handlers[c] = {}

\* the sessions some connection is bound to
Bound == {c_session[c] : c \in Conns} \ {NoSession}

\* C28: a session whose connect timer fired is no longer pending and no
\* connection is or becomes bound to it; the timer of a bound session is
\* cancelled, stays cancelled and removes nothing.
C28_SessionTimeout ==
    /\ [](\A s \in SessionIds :
            /\ connection_task[s] = "fired" => s \notin Elems(sessions) \cup Bound
            /\ s \in Bound => connection_task[s] = "cancelled")
    /\ [][\A s \in SessionIds :
            /\ connection_task[s] = "cancelled" => connection_task'[s] = "cancelled"
            /\ (connection_task[s] = "armed" /\ connection_task'[s] = "fired")
                  => (s \in Elems(sessions) /\ sessions' = Remove(sessions, s))]_vars

\* one prepared session timed out and a connection is bound to another
C28_Witness ==
    \E s \in SessionIds :
        /\ connection_task[s] = "fired"
        /\ \E r \in Bound : r # s

\* a prepared session timed out or a connection was closed in this step
SessionOrConnectionGone ==
    \/ Len(connections') < Len(connections)
    \/ \E s \in SessionIds : connection_task[s] = "armed" /\ connection_task'[s] = "fired"

\* C29: a session timeout or a connection close that leaves no prepared session
\* and no live connection closes every open listener in the same step, and a
\* listener is closed only by a step that leaves neither.
C29_ListenerClosedWhenIdle ==
    [][/\ (SessionOrConnectionGone /\ sessions' = <<>> /\ connections' = <<>>)
            => openListeners' = {}
       /\ openListeners' # openListeners /\ openListeners' \subseteq openListeners
            => sessions' = <<>> /\ connections' = <<>>]_vars

\* what a send of the given kind with a payload of n bytes leaves behind on
\* connection c
AfterSend(c, kind, n) == send_payload(View(c), kind, n, 1)

\* C30: on a Ready connection a send of any kind with a payload longer than
\* MAX_PAYLOAD_LENGTH raises, writes nothing and leaves the outbound nonce, and a
\* send with a payload of exactly MAX_PAYLOAD_LENGTH bytes writes one frame.
C30_PayloadLimit ==
    \A c \in Conns : (state[c] = READY /\ transport[c] = "open") =>
        \A kind \in SendKinds :
            /\ AfterSend(c, kind, MAX_PAYLOAD_LENGTH + 1).exc # ""
            /\ AfterSend(c, kind, MAX_PAYLOAD_LENGTH + 1).written = written[c]
            /\ AfterSend(c, kind, MAX_PAYLOAD_LENGTH + 1).out_nonce = out_nonce
            /\ AfterSend(c, kind, MAX_PAYLOAD_LENGTH).exc = ""
            /\ Len(AfterSend(c, kind, MAX_PAYLOAD_LENGTH).written) = Len(written[c]) + 1

\* C31: for every supported value v of the bounded set (null, booleans, the
\* integers at the borders of the tiers, strings, arrays up to 13 and dictionaries
\* up to 15 entries) encode succeeds, decode(encode(v)) equals v, and the decoder
\* consumes exactly the bytes the encoder produced.
C31_RoundTrip ==
    opack.class = "value" =>
        /\ opack.exc = ""
        /\ opack.phase = "decoded" =>
              /\ opack.result = opack.value
              /\ opack.index = Len(opack.data)

\* C32: decode raises, and returns no value, on an unassigned tag byte, on
\* truncated input, on a back-reference beyond the scalars decoded so far, and
\* on a terminated dictionary with an odd number of items.
C32_DecoderRejects ==
    /\ opack.phase = "decoded"
    /\ opack.class \in {"unassigned", "truncated", "back_reference", "odd_dictionary"}
    => opack.exc # ""

\* what a call of data_received with the frames of `batch` leaves behind
AfterBatch(c, batch) == data_received(View(c), decode_frames(batch), request_handlers)

\* the read cipher of session s is the one connection c uses, or will use once
\* the frame has identified it
ReadCipherOf(c, s) ==
    IF state[c] = UNIDENTIFIED THEN s \in Elems(sessions) ELSE c_session[c] = s

\* C33: the outbound nonce of a session is the number of frames its connection
\* has sealed, and the inbound nonce advances by one for every frame the read
\* cipher opens and by nothing else: not for a frame it cannot open (tampered,
\* replayed, out of order), not for a frame with an unknown payload-type byte,
\* and only once for the first frame, which identification has already opened.
C33_NonceCountsFrames ==
    /\ \A s \in SessionIds :
          (\A c \in Conns : c_session[c] # s) => out_nonce[s] = 0
    /\ \A c \in Conns :
          /\ c_session[c] # NoSession => out_nonce[c_session[c]] = Len(written[c])
          /\ transport[c] = "open" /\ state[c] \in {UNIDENTIFIED, EXPECTING_HELLO, READY}
             => \A s \in 1..nsessions :
                  LET hello == Payload("request", "control", "hello", 1, 0)
                      good == Frame(PAYLOAD_TAG, s, in_nonce[s], hello)
                      ahead == Frame(PAYLOAD_TAG, s, in_nonce[s] + 1, hello)
                      replayed == Frame(PAYLOAD_TAG, s, in_nonce[s] - 1, hello)
                      tampered == Frame(PAYLOAD_TAG, NoSession, in_nonce[s], hello)
                      unknown == Frame(PAYLOAD_TAG + 1, s, in_nonce[s], hello)
                      after(batch) == AfterBatch(c, batch).in_nonce
                      opened(k) == IF ReadCipherOf(c, s)
                                   THEN [in_nonce EXCEPT ![s] = @ + k]
                                   ELSE in_nonce
                  IN /\ after(<<tampered>>) = in_nonce
                     /\ after(<<ahead>>) = in_nonce
                     /\ after(<<replayed>>) = in_nonce
                     /\ after(<<unknown>>) = in_nonce
                     /\ after(<<good>>) = opened(1)
                     /\ after(<<unknown, good>>) = opened(1)
                     /\ after(<<good, tampered, ahead>>) = opened(1)
                     /\ after(<<good, ahead>>) = opened(2)

\* a connection that identification bound has had two frames opened and one
\* sealed, and another connection failed identification
C33_Witness ==
    \E c, d \in Conns :
        /\ ident[c] = "bound"
        /\ in_nonce[c_session[c]] >= 2
        /\ out_nonce[c_session[c]] >= 1
        /\ ident[d] = "failed"

\* frames the read cipher of session s cannot open when its inbound counter is
\* n: tampered, replayed, and sealed under a nonce ahead of the counter
Unopenable(s, n, p) ==
    {Frame(PAYLOAD_TAG, NoSession, n, p),
     Frame(PAYLOAD_TAG, s, n - 1, p),
     Frame(PAYLOAD_TAG, s, n + 1, p)}

\* batches for connection c with such a frame alone, before and after a frame
\* that is in sequence
UnopenableBatches(c, p) ==
    LET s == c_session[c] IN
    {<<bad>> : bad \in Unopenable(s, in_nonce[s], p)}
        \cup {<<bad, NextFrame(c, p)>> : bad \in Unopenable(s, in_nonce[s], p)}
        \cup {<<NextFrame(c, p), bad>> : bad \in Unopenable(s, in_nonce[s] + 1, p)}

\* C34: on a bound connection (ExpectingHello or Ready) a batch with a frame that
\* the session's read cipher cannot open ends data_received with the connection
\* closed (the transport is closing, or the exception that leaves the call makes
\* the transport close), and nothing of the batch is dispatched, answered or
\* given to a callback.
C34_UnopenableFrameCloses ==
    \A c \in Conns :
        transport[c] = "open" /\ state[c] \in {EXPECTING_HELLO, READY} =>
            \A p \in {Payload("request", "control", "hello", 1, 0),
                      Payload("event", "targetControl", "whoami", 0, 0)} :
                \A batch \in UnopenableBatches(c, p) :
                    /\ AfterBatch(c, batch).exc # ""
                         \/ AfterBatch(c, batch).transport # "open"
                    /\ AfterBatch(c, batch).handled = handled[c]
                    /\ AfterBatch(c, batch).written = written[c]
                    /\ AfterBatch(c, batch).cbLog = cbLog[c]
                    /\ AfterBatch(c, batch).state = state[c]
                         \/ AfterBatch(c, batch).state >= CLOSING

\* a ready connection that has dispatched its hello and nothing else is shut
C34_Witness ==
    \E c \in Conns :
        /\ ident[c] = "bound"
        /\ state[c] = READY
        /\ Shut(c)
        /\ Len(handled[c]) = 1
        /\ handled[c][1].by = "hello"

\* C35: a prepare_session call made after the server closed its listener opens a
\* listener again: the call is waiting for create_server, or the session it
\* returned carries the port of an open listener.
C35_ListenerReopens ==
    [][(srvState = "CLOSED" /\ nsessions' = nsessions + 1) =>
          \/ nsessions' \in starting'
          \/ port'[nsessions'] \in openListeners']_vars

\* C36: when the listener cannot be started, prepare_session removes the session
\* it appended, so no session is pending without the port of a listener once
\* its prepare_session call has returned.
C36_FailedStartUndone ==
    /\ [][\A s \in SessionIds :
            (s \in starting /\ s \notin starting' /\ port'[s] = NoListener)
                => s \notin Elems(sessions')]_vars
    /\ [](\A s \in Elems(sessions) : s \notin starting => port[s] # NoListener)

\* C37: a batch that moves a connection from ExpectingHello to Ready cancels its
\* hello timer, whatever the type of the first message, so the timer is never
\* armed on a Ready connection and cannot fire there.
C37_HelloTimerCancelled ==
    /\ [][\A c \in Conns :
            (state[c] = EXPECTING_HELLO /\ state'[c] = READY)
                => hello_timer'[c] # "armed"]_vars
    /\ [](\A c \in Conns : state[c] = READY => hello_timer[c] # "armed")

\* C38: once a recording stream has sent its packet with last = true and ended,
\* a valid dataSend.open request on any serving connection is accepted: a new
\* stream is created for it, nothing is written before the stream's task runs,
\* and that task answers the request with SUCCESS.
C38_SlotFreeAfterStream ==
    \A c \in Conns :
        (/\ Serving(c)
         /\ recording_stream.phase = "done"
         /\ LastYielded
         /\ recording_active /\ camera_active /\ selected_config)
        => \A i \in Ids :
              LET W == AfterFrame(c, OpenPayload("controller", "ipcamera.recording", i))
                  A == async_start(W, W.stream)
              IN /\ W.stream = NewStream(c, i)
                 /\ W.written = written[c]
                 /\ Len(A.written) = Len(written[c]) + 1
                 /\ A.written[Len(A.written)].kind = "response"
                 /\ A.written[Len(A.written)].id = i
                 /\ A.written[Len(A.written)].status = SUCCESS

\* the dataSend.data events of connection c that carry endOfStream = true
EndOfStreamEvents(c) ==
    {k \in DataEvents(c) : written[c][k].body[6][2] = "True"}

\* C39: once the delegate has yielded a packet with last = true on a Ready
\* connection, of whatever length, the stream's connection has written exactly
\* one dataSend.data event with endOfStream = true, and no data event after it.
C39_EndOfStreamSent ==
    \A j \in DOMAIN yielded :
        (yielded[j].last /\ yielded[j].ready) =>
            /\ Cardinality(EndOfStreamEvents(recording_stream.connection)) = 1
            /\ \A e \in EndOfStreamEvents(recording_stream.connection) :
                  \A k \in DataEvents(recording_stream.connection) : k <= e

\* dataSend.open received as an event, with a body that a request would need
\* to be accepted, and with one that a request would be rejected for
OpenEvents ==
    {[Payload("event", "dataSend", "open", 0, 0) EXCEPT !.body = Body(target, "ipcamera.recording")] :
        target \in {"controller", "accessory"}}

\* C40: the handlers registered with add_request_handler are invoked for requests
\* only: a dataSend.open event on a serving connection reaches no handler, so it
\* creates no recording stream, writes no response, and leaves the connection
\* as it was.
C40_EventInvokesNoRequestHandler ==
    \A c \in Conns : Serving(c) =>
        \A p \in OpenEvents :
            /\ AfterFrame(c, p).stream = recording_stream
            /\ AfterFrame(c, p).written = written[c]
            /\ AfterFrame(c, p).protocols = protocol_handlers[c]
            /\ AfterFrame(c, p).exc = ""
====
